---- MODULE Spec2Model ----
(***************************************************************************)
(* A model of Raya's source-structure extraction engine                    *)
(* (tree_sitter_parser.py): the grammar registry, the language detector,   *)
(* the fallback extractor, the syntax tree walker with its extraction      *)
(* rules, the complexity calculator and the batch processor, and of the    *)
(* pipeline around it: the file lister (git_handler.py) and the processing *)
(* of a repository with its database records (code_parser.py).             *)
(*                                                                         *)
(* Text is modelled as sequences of one-character strings, so that         *)
(* splitting, slicing, lower-casing and stripping are computed as the      *)
(* code computes them.  A Python dict is a function with string keys; a    *)
(* call that may raise returns an outcome [raised, value].                 *)
(***************************************************************************)
EXTENDS Integers, Sequences, FiniteSets, TLC

VARIABLES
    grammars,   \* the grammar packages of the installation: which fail, and where
    languages,  \* self.languages: language name -> loaded grammar
    parsers,    \* self.parsers: language name -> parser set to that grammar
    fs,         \* the file system: full path -> file state
    file_list,  \* batch_parse_files: the descriptor list of the running batch
    idx,        \* batch_parse_files: position of the for loop (0: no batch)
    results,    \* batch_parse_files: the results dict built so far
    seen,       \* history: what the call made for each processed descriptor met
    call,       \* the last parse_file call: its arguments and its outcome
    tree,       \* extraction: the syntax tree handed to the rules (pre-order)
    content,    \* extraction / fallback: the text read from the file
    out,        \* extraction / fallback: what the operation returned
    pc,         \* process_repository: the position of the running request
    repo_record,   \* process_repository: the Repository object of the request
    repositories,  \* database: the committed status of each repository row
    code_files,    \* database: the committed rows of code files
    temp_dirs,  \* temp_repos: the state of each request's temporary directory
    frame       \* _parse_repository_files: the locals of its save loop

vars ==
    <<grammars, languages, parsers, fs, file_list, idx, results, seen, call, tree, content,
      out, pc, repo_record, repositories, code_files, temp_dirs, frame>>

registry == <<grammars, languages, parsers>>

batchVars == <<file_list, idx, results, seen>>

extractVars == <<tree, content, out>>

pipelineVars == <<pc, repo_record, repositories, code_files, temp_dirs, frame>>

(***************************************************************************)
(* Bounds of the model.                                                    *)
(***************************************************************************)
MaxFiles == 2        \* descriptors in one batch
MaxFailed == 1       \* grammar modules that fail to load at start-up
MaxNodes == 4        \* nodes of a generated syntax tree
MaxRow == 1          \* last (0-based) row of a generated syntax tree
MaxLen == 4          \* characters of a generated file content
MaxRequests == 2     \* requests handled by process_repository

(***************************************************************************)
(* Python values.                                                          *)
(***************************************************************************)
None == "None"

\* `not language`: None and the empty string are falsy
Falsy(language) == language = None \/ language = ""

Ret(v) == [raised |-> FALSE, value |-> v]

Raise(e) == [raised |-> TRUE, value |-> e]

\* no Repository object: the request has not saved its record
NoRecord == [id |-> 0, status |-> None]

\* _parse_repository_files is not running
NoFrame == [running |-> FALSE]

\* no request is being processed and the database and temp_repos are empty
NoPipeline ==
    /\ pc = "none"
    /\ repo_record = NoRecord
    /\ repositories = <<>>
    /\ code_files = <<>>
    /\ temp_dirs = <<>>
    /\ frame = NoFrame

Min(a, b) == IF a <= b THEN a ELSE b

\* s[a:b] for 0 <= a, 0 <= b: never raises, clips to the string
Slice(s, a, b) == SubSeq(s, a + 1, Min(b, Len(s)))

RECURSIVE SplitFrom(_, _, _)
\* str.split('\n'): cur is the piece being built, i the next position
SplitFrom(s, i, cur) ==
    IF i > Len(s) THEN <<cur>>
    ELSE IF s[i] = "\n" THEN <<cur>> \o SplitFrom(s, i + 1, <<>>)
    ELSE SplitFrom(s, i + 1, Append(cur, s[i]))

Split(s) == SplitFrom(s, 1, <<>>)

Whitespace == {" ", "\t", "\r", "\n"}

\* bool(line.strip()): some character of the line is not white space
StripNonEmpty(line) == \E i \in 1..Len(line) : line[i] \notin Whitespace

RECURSIVE CountNonBlank(_)
\* len([line for line in lines if line.strip()])
CountNonBlank(lines) ==
    IF lines = <<>> THEN 0
    ELSE (IF StripNonEmpty(Head(lines)) THEN 1 ELSE 0) + CountNonBlank(Tail(lines))

\* a character that UTF-8 encodes in two bytes
Wide == "\\u00e9"

\* len(bytes(c, 'utf-8'))
Utf8Len(c) == IF c = Wide THEN 2 ELSE 1

RECURSIVE ByteLen(_)
\* len(bytes(s, 'utf-8'))
ByteLen(s) == IF s = <<>> THEN 0 ELSE Utf8Len(Head(s)) + ByteLen(Tail(s))

(***************************************************************************)
(* The file system.  A file state is Missing or the bytes of the file; the *)
(* byte InvalidByte is one that is not valid UTF-8.                        *)
(***************************************************************************)
Missing == [exists |-> FALSE, bytes |-> <<>>]

File(bytes) == [exists |-> TRUE, bytes |-> bytes]

InvalidByte == "\\xff"

RECURSIVE Decode(_)
\* decoding with errors='ignore': invalid bytes are dropped
Decode(bytes) ==
    IF bytes = <<>> THEN <<>>
    ELSE IF Head(bytes) = InvalidByte THEN Decode(Tail(bytes))
    ELSE <<Head(bytes)>> \o Decode(Tail(bytes))

\* open(file_path, 'r', encoding='utf-8', errors='ignore') ... f.read()
ReadFile(state) ==
    IF state.exists THEN Ret(Decode(state.bytes)) ELSE Raise("FileNotFoundError")

(***************************************************************************)
(* Language Detector.                                                      *)
(***************************************************************************)
Upper == <<"P", "Y", "T", "S", "C", "J", "X", "A", "V", "G", "O", "R">>

Lowered == <<"p", "y", "t", "s", "c", "j", "x", "a", "v", "g", "o", "r">>

LowerChar(c) ==
    IF \E i \in 1..Len(Upper) : Upper[i] = c
    THEN Lowered[CHOOSE i \in 1..Len(Upper) : Upper[i] = c]
    ELSE c

\* str.lower()
Lower(s) == [i \in 1..Len(s) |-> LowerChar(s[i])]

\* str.rfind(c): 0-based index of the last occurrence, -1 when absent
RFind(p, c) ==
    IF \E i \in 1..Len(p) : p[i] = c
    THEN (CHOOSE i \in 1..Len(p) : p[i] = c /\ \A j \in (i + 1)..Len(p) : p[j] # c) - 1
    ELSE -1

\* os.path.splitext(p)[1]: the text from the last dot of the base name on,
\* empty when the base name has no dot or only leading dots
SplitExt(p) ==
    LET sepIndex == RFind(p, "/")
        dotIndex == RFind(p, ".")
    IN  IF dotIndex > sepIndex
           /\ \E k \in (sepIndex + 1)..(dotIndex - 1) : p[k + 1] # "."
        THEN SubSeq(p, dotIndex + 1, Len(p))
        ELSE <<>>

extension_map ==
    (<<".", "p", "y">> :> "python")
    @@ (<<".", "j", "s">> :> "javascript")
    @@ (<<".", "j", "s", "x">> :> "javascript")
    @@ (<<".", "t", "s">> :> "typescript")
    @@ (<<".", "t", "s", "x">> :> "typescript")
    @@ (<<".", "j", "a", "v", "a">> :> "java")
    @@ (<<".", "c", "p", "p">> :> "cpp")
    @@ (<<".", "c", "x", "x">> :> "cpp")
    @@ (<<".", "c", "c">> :> "cpp")
    @@ (<<".", "c">> :> "c")
    @@ (<<".", "g", "o">> :> "go")
    @@ (<<".", "r", "s">> :> "rust")

\* _detect_language without the lower(): the extension is looked up as written
_detect_language_case_sensitive(file_path) ==
    LET ext == SplitExt(file_path)
    IN  IF ext \in DOMAIN extension_map THEN extension_map[ext] ELSE None

_detect_language(file_path) ==
    LET ext == Lower(SplitExt(file_path))
    IN  IF ext \in DOMAIN extension_map THEN extension_map[ext] ELSE None

(***************************************************************************)
(* Fallback Extractor.                                                     *)
(***************************************************************************)
\* a diagnostic string: its fixed text and the exception text formatted into it
Message(text, detail) == [text |-> text, detail |-> detail]

DegradedMessage == Message("Fallback parsing used - limited functionality", "")

\* f'Parsing failed: {str(e)}'
FailedMessage(e) == Message("Parsing failed: ", e)

\* _fallback_parse without its try/except: a failing read escapes
_fallback_parse_reraises(file_path, state) ==
    LET read == ReadFile(state)
    IN  IF read.raised THEN read
        ELSE LET lines == Split(read.value)
                 detected == _detect_language(file_path)
             IN  Ret([language |-> IF detected = None THEN "unknown" ELSE detected,
                      functions |-> <<>>, classes |-> <<>>, imports |-> <<>>,
                      lines_of_code |-> CountNonBlank(lines),
                      total_lines |-> Len(lines),
                      errors |-> <<DegradedMessage>>])

\* _fallback_parse taking an unreadable file for an empty one
_fallback_parse_missing_as_empty(file_path, state) ==
    LET read == ReadFile(state)
        lines == Split(IF read.raised THEN <<>> ELSE read.value)
        detected == _detect_language(file_path)
    IN  Ret([language |-> IF detected = None THEN "unknown" ELSE detected,
             functions |-> <<>>, classes |-> <<>>, imports |-> <<>>,
             lines_of_code |-> CountNonBlank(lines),
             total_lines |-> Len(lines),
             errors |-> <<DegradedMessage>>])

_fallback_parse(file_path, state) ==
    LET read == ReadFile(state)
    IN  IF read.raised
        THEN Ret([language |-> "unknown", functions |-> <<>>, classes |-> <<>>,
                  imports |-> <<>>, errors |-> <<FailedMessage(read.value)>>])
        ELSE LET lines == Split(read.value)
                 detected == _detect_language(file_path)
             IN  Ret([language |-> IF detected = None THEN "unknown" ELSE detected,
                      functions |-> <<>>, classes |-> <<>>, imports |-> <<>>,
                      lines_of_code |-> CountNonBlank(lines),
                      total_lines |-> Len(lines),
                      errors |-> <<DegradedMessage>>])

(***************************************************************************)
(* Syntax trees.  A tree is the sequence of its nodes in pre-order, each   *)
(* with its depth; a node of the code is an index into that sequence.      *)
(* Optional values (a record or None) are sequences of length 0 or 1.      *)
(***************************************************************************)
Node(type, depth, start_point, end_point) ==
    [type |-> type, depth |-> depth, start_point |-> start_point, end_point |-> end_point]

NoneOpt == <<>>

Some(v) == <<v>>

RECURSIVE ChildrenFrom(_, _, _)
ChildrenFrom(t, n, j) ==
    IF j > Len(t) \/ t[j].depth <= t[n].depth THEN <<>>
    ELSE (IF t[j].depth = t[n].depth + 1 THEN <<j>> ELSE <<>>) \o ChildrenFrom(t, n, j + 1)

\* node.children, in order
Children(t, n) == ChildrenFrom(t, n, n + 1)

\* `for child in kids: if child.type == type: found = child; break`
FirstOfType(t, kids, type) ==
    IF \E i \in 1..Len(kids) : t[kids[i]].type = type
    THEN Some(kids[CHOOSE i \in 1..Len(kids) :
                    /\ t[kids[i]].type = type
                    /\ \A j \in 1..(i - 1) : t[kids[j]].type # type])
    ELSE NoneOpt

\* lines[n.start_point[0]][n.start_point[1]:n.end_point[1]]; IndexError when
\* the row is not a line of the content
NodeText(t, n, lines) ==
    IF t[n].start_point[1] + 1 > Len(lines) THEN Raise("IndexError")
    ELSE Ret(Slice(lines[t[n].start_point[1] + 1], t[n].start_point[2], t[n].end_point[2]))

(***************************************************************************)
(* Complexity Calculator.                                                  *)
(***************************************************************************)
BranchTypes == {"if_statement", "while_statement", "for_statement", "except_clause"}

RECURSIVE traverse_for_complexity(_, _)
RECURSIVE traverse_for_complexity_children(_, _)
\* the increments traverse_for_complexity(n) adds to `complexity`
traverse_for_complexity(t, n) ==
    (IF t[n].type \in BranchTypes THEN 1 ELSE 0)
    + traverse_for_complexity_children(t, Children(t, n))

traverse_for_complexity_children(t, kids) ==
    IF kids = <<>> THEN 0
    ELSE traverse_for_complexity(t, Head(kids)) + traverse_for_complexity_children(t, Tail(kids))

\* _calculate_complexity counting the branching nodes among the direct
\* children only
_calculate_complexity_shallow(t, node) ==
    1 + Cardinality({i \in 1..Len(Children(t, node)) :
                        t[Children(t, node)[i]].type \in BranchTypes})

_calculate_complexity(t, node) == 1 + traverse_for_complexity(t, node)

(***************************************************************************)
(* Extraction rules: Python.                                               *)
(***************************************************************************)
\* the texts of the nodes of `nodes`, in order (each an outcome)
Texts(t, nodes, lines) == [i \in 1..Len(nodes) |-> NodeText(t, nodes[i], lines)]

AnyRaised(outcomes) == \E i \in 1..Len(outcomes) : outcomes[i].raised

Values(outcomes) == [i \in 1..Len(outcomes) |-> outcomes[i].value]

\* the children of `node` that are identifiers, in order
IdentifierChildren(t, node) ==
    LET IsIdentifier(k) == t[k].type = "identifier"
    IN  SelectSeq(Children(t, node), IsIdentifier)

\* the docstring lookup of _extract_python_function: an outcome holding
\* None or the text of the string
Docstring(t, node, lines) ==
    LET body_node == FirstOfType(t, Children(t, node), "block")
        body_kids == IF body_node = NoneOpt THEN <<>> ELSE Children(t, body_node[1])
        first_stmt == IF Len(body_kids) > 1 THEN Some(body_kids[2]) ELSE NoneOpt
        stmt_kids == IF first_stmt = NoneOpt THEN <<>> ELSE Children(t, first_stmt[1])
        expr_child ==
            IF first_stmt # NoneOpt /\ t[first_stmt[1]].type = "expression_statement"
               /\ stmt_kids # <<>>
            THEN Some(stmt_kids[1]) ELSE NoneOpt
    IN  IF expr_child # NoneOpt /\ t[expr_child[1]].type = "string"
        THEN LET text == NodeText(t, expr_child[1], lines)
             IN  IF text.raised THEN text ELSE Ret(Some(text.value))
        ELSE Ret(NoneOpt)

_extract_python_function(t, node, lines) ==
    LET kids == Children(t, node)
        name_node == FirstOfType(t, kids, "identifier")
    IN  IF name_node = NoneOpt THEN NoneOpt
        ELSE LET func_name == NodeText(t, name_node[1], lines)
                 params_node == FirstOfType(t, kids, "parameters")
                 parameters ==
                     IF params_node = NoneOpt THEN <<>>
                     ELSE Texts(t, IdentifierChildren(t, params_node[1]), lines)
                 docstring == Docstring(t, node, lines)
             IN  IF func_name.raised \/ AnyRaised(parameters) \/ docstring.raised
                 THEN NoneOpt      \* except Exception: return None
                 ELSE Some([name |-> func_name.value,
                            start_line |-> t[node].start_point[1] + 1,
                            end_line |-> t[node].end_point[1] + 1,
                            parameters |-> Values(parameters),
                            docstring |-> docstring.value,
                            complexity |-> _calculate_complexity(t, node)])

RECURSIVE MethodsOf(_, _, _)
\* the methods loop also taking the functions below a statement of the body
MethodsOfAnyDepth(t, kids, lines) ==
    IF kids = <<>> THEN <<>>
    ELSE (IF t[Head(kids)].type = "function_definition"
          THEN _extract_python_function(t, Head(kids), lines)
          ELSE MethodsOf(t, Children(t, Head(kids)), lines))
         \o MethodsOf(t, Tail(kids), lines)

\* the loop over body_node.children of _extract_python_class
MethodsOf(t, kids, lines) ==
    IF kids = <<>> THEN <<>>
    ELSE (IF t[Head(kids)].type = "function_definition"
          THEN _extract_python_function(t, Head(kids), lines) ELSE <<>>)
         \o MethodsOf(t, Tail(kids), lines)

_extract_python_class(t, node, lines) ==
    LET kids == Children(t, node)
        name_node == FirstOfType(t, kids, "identifier")
    IN  IF name_node = NoneOpt THEN NoneOpt
        ELSE LET class_name == NodeText(t, name_node[1], lines)
                 body_node == FirstOfType(t, kids, "block")
                 methods == IF body_node = NoneOpt THEN <<>>
                            ELSE MethodsOf(t, Children(t, body_node[1]), lines)
             IN  IF class_name.raised THEN NoneOpt
                 ELSE Some([name |-> class_name.value,
                            start_line |-> t[node].start_point[1] + 1,
                            end_line |-> t[node].end_point[1] + 1,
                            methods |-> methods,
                            attributes |-> <<>>])

_extract_python_import(t, node, lines) ==
    LET import_text == NodeText(t, node, lines)
    IN  IF import_text.raised THEN NoneOpt
        ELSE Some([type |-> t[node].type,
                   statement |-> import_text.value,
                   line |-> t[node].start_point[1] + 1])

_extract_python_variable(t, node, lines) ==
    LET kids == Children(t, node)
    IN  IF kids # <<>> /\ t[kids[1]].type = "identifier"
        THEN LET var_name == NodeText(t, kids[1], lines)
             IN  IF var_name.raised THEN NoneOpt
                 ELSE Some([name |-> var_name.value,
                            line |-> t[node].start_point[1] + 1,
                            type |-> "variable"])
        ELSE NoneOpt

\* what the rule matching node n appends to the result dict
VisitPython(t, n, lines, result) ==
    IF t[n].type = "function_definition"
    THEN [result EXCEPT !.functions = @ \o _extract_python_function(t, n, lines)]
    ELSE IF t[n].type = "class_definition"
    THEN [result EXCEPT !.classes = @ \o _extract_python_class(t, n, lines)]
    ELSE IF t[n].type \in {"import_statement", "import_from_statement"}
    THEN [result EXCEPT !.imports = @ \o _extract_python_import(t, n, lines)]
    ELSE IF t[n].type = "assignment"
    THEN [result EXCEPT !.variables = @ \o _extract_python_variable(t, n, lines)]
    ELSE result

RECURSIVE traverse_node_python(_, _, _, _)
RECURSIVE traverse_node_python_children(_, _, _, _)
\* traverse_node that does not descend below a node a rule was called on
traverse_node_python_stops_at_match(t, n, lines, result) ==
    IF t[n].type \in {"function_definition", "class_definition", "import_statement",
                      "import_from_statement", "assignment"}
    THEN VisitPython(t, n, lines, result)
    ELSE traverse_node_python_children(t, Children(t, n), lines, result)

\* traverse_node of _parse_python: the result dict after visiting n's subtree
traverse_node_python(t, n, lines, result) ==
    traverse_node_python_children(t, Children(t, n), lines, VisitPython(t, n, lines, result))

traverse_node_python_children(t, kids, lines, result) ==
    IF kids = <<>> THEN result
    ELSE traverse_node_python_children(t, Tail(kids), lines,
                                traverse_node_python(t, Head(kids), lines, result))

_parse_python(t, text) ==
    traverse_node_python(t, 1, Split(text),
                   [language |-> "python", functions |-> <<>>, classes |-> <<>>,
                    imports |-> <<>>, variables |-> <<>>, errors |-> <<>>])

(***************************************************************************)
(* Extraction rules: JavaScript and TypeScript.                            *)
(***************************************************************************)
Anonymous == <<"a", "n", "o", "n", "y", "m", "o", "u", "s">>

JsFunctionTypes == {"function_declaration", "function_expression", "arrow_function"}

\* the name loop of the JavaScript rules: an outcome holding the name
JsName(t, node, lines) ==
    LET name_node == FirstOfType(t, Children(t, node), "identifier")
    IN  IF name_node = NoneOpt THEN Ret(Anonymous) ELSE NodeText(t, name_node[1], lines)

_extract_js_function(t, node, lines) ==
    LET func_name == JsName(t, node, lines)
    IN  IF func_name.raised THEN NoneOpt
        ELSE Some([name |-> func_name.value,
                   start_line |-> t[node].start_point[1] + 1,
                   end_line |-> t[node].end_point[1] + 1,
                   parameters |-> <<>>,
                   type |-> t[node].type])

_extract_js_class(t, node, lines) ==
    LET class_name == JsName(t, node, lines)
    IN  IF class_name.raised THEN NoneOpt
        ELSE Some([name |-> class_name.value,
                   start_line |-> t[node].start_point[1] + 1,
                   end_line |-> t[node].end_point[1] + 1,
                   methods |-> <<>>])

_extract_js_import(t, node, lines) ==
    LET import_text == NodeText(t, node, lines)
    IN  IF import_text.raised THEN NoneOpt
        ELSE Some([statement |-> import_text.value,
                   line |-> t[node].start_point[1] + 1])

VisitJavascript(t, n, lines, result) ==
    IF t[n].type \in JsFunctionTypes
    THEN [result EXCEPT !.functions = @ \o _extract_js_function(t, n, lines)]
    ELSE IF t[n].type = "class_declaration"
    THEN [result EXCEPT !.classes = @ \o _extract_js_class(t, n, lines)]
    ELSE IF t[n].type \in {"import_statement", "import_clause"}
    THEN [result EXCEPT !.imports = @ \o _extract_js_import(t, n, lines)]
    ELSE result

RECURSIVE traverse_node_javascript(_, _, _, _)
RECURSIVE traverse_node_javascript_children(_, _, _, _)
\* traverse_node of _parse_javascript
traverse_node_javascript(t, n, lines, result) ==
    traverse_node_javascript_children(t, Children(t, n), lines,
                               VisitJavascript(t, n, lines, result))

traverse_node_javascript_children(t, kids, lines, result) ==
    IF kids = <<>> THEN result
    ELSE traverse_node_javascript_children(t, Tail(kids), lines,
                                    traverse_node_javascript(t, Head(kids), lines, result))

\* _parse_javascript with rules that let their exception escape: the
\* traversal ends at the first node whose rule raises
_parse_javascript_aborts(t, text) ==
    LET raising == {n \in 1..Len(t) :
                       /\ t[n].type \in JsFunctionTypes \cup {"class_declaration"}
                       /\ JsName(t, n, Split(text)).raised}
        visited == IF raising = {} THEN t
                   ELSE SubSeq(t, 1, (CHOOSE n \in raising : \A m \in raising : n <= m) - 1)
    IN  traverse_node_javascript(visited, 1, Split(text),
                       [language |-> "javascript", functions |-> <<>>, classes |-> <<>>,
                        imports |-> <<>>, exports |-> <<>>, variables |-> <<>>,
                        errors |-> <<>>])

_parse_javascript(t, text) ==
    traverse_node_javascript(t, 1, Split(text),
                       [language |-> "javascript", functions |-> <<>>, classes |-> <<>>,
                        imports |-> <<>>, exports |-> <<>>, variables |-> <<>>,
                        errors |-> <<>>])

(***************************************************************************)
(* Languages that register no extraction rule.                             *)
(***************************************************************************)
_parse_java(t, text) ==
    [language |-> "java", functions |-> <<>>, classes |-> <<>>, imports |-> <<>>,
     errors |-> <<>>]

_parse_cpp(t, text) ==
    [language |-> "cpp", functions |-> <<>>, classes |-> <<>>, includes |-> <<>>,
     errors |-> <<>>]

_parse_go(t, text) ==
    [language |-> "go", functions |-> <<>>, structs |-> <<>>, imports |-> <<>>,
     errors |-> <<>>]

_parse_rust(t, text) ==
    [language |-> "rust", functions |-> <<>>, structs |-> <<>>, imports |-> <<>>,
     errors |-> <<>>]

(***************************************************************************)
(* Grammar Registry.                                                       *)
(***************************************************************************)
language_configs ==
    [python |-> "tree_sitter_python", javascript |-> "tree_sitter_javascript",
     typescript |-> "tree_sitter_typescript", java |-> "tree_sitter_java",
     cpp |-> "tree_sitter_cpp", c |-> "tree_sitter_cpp", go |-> "tree_sitter_go",
     rust |-> "tree_sitter_rust"]

Modules == {language_configs[l] : l \in DOMAIN language_configs}

\* the installation: the modules whose import or Language(module.language())
\* raises, and those for which Parser() or parser.set_language raises
Grammars(load_fails, parser_fails) ==
    [load_fails |-> load_fails, parser_fails |-> parser_fails]

AllLoaded == Grammars({}, {})

\* the two dicts after the loop of _setup_languages: a language is stored in
\* self.languages once its grammar is loaded, and in self.parsers once its
\* parser is set; an exception in between ends the iteration of that language
_setup_languages(g) ==
    LET loaded == {l \in DOMAIN language_configs : language_configs[l] \notin g.load_fails}
        ready == {l \in loaded : language_configs[l] \notin g.parser_fails}
    IN  [languages |-> [l \in loaded |-> language_configs[l]],
         parsers |-> [l \in ready |-> language_configs[l]]]

\* the object after TreeSitterParser() in the installation g
Constructed(g) ==
    /\ grammars = g
    /\ languages = _setup_languages(g).languages
    /\ parsers = _setup_languages(g).parsers

(***************************************************************************)
(* The parser of a registered language, a collaborator: the tree it gives  *)
(* for the sample sources, and a one-node tree for any other text.         *)
(***************************************************************************)
PySource ==
    <<"d", "e", "f", " ", "f", "(", "a", ")", ":", "\n",
      " ", "i", "f", " ", "a", ":", "\n",
      " ", " ", "g", "\n">>

PyTree ==
    <<Node("module", 0, <<0, 0>>, <<3, 0>>),
      Node("function_definition", 1, <<0, 0>>, <<2, 3>>),
      Node("def", 2, <<0, 0>>, <<0, 3>>),
      Node("identifier", 2, <<0, 4>>, <<0, 5>>),
      Node("parameters", 2, <<0, 5>>, <<0, 8>>),
      Node("(", 3, <<0, 5>>, <<0, 6>>),
      Node("identifier", 3, <<0, 6>>, <<0, 7>>),
      Node(")", 3, <<0, 7>>, <<0, 8>>),
      Node(":", 2, <<0, 8>>, <<0, 9>>),
      Node("block", 2, <<1, 1>>, <<2, 3>>),
      Node("if_statement", 3, <<1, 1>>, <<2, 3>>),
      Node("if", 4, <<1, 1>>, <<1, 3>>),
      Node("identifier", 4, <<1, 4>>, <<1, 5>>),
      Node(":", 4, <<1, 5>>, <<1, 6>>),
      Node("block", 4, <<2, 2>>, <<2, 3>>),
      Node("expression_statement", 5, <<2, 2>>, <<2, 3>>),
      Node("identifier", 6, <<2, 2>>, <<2, 3>>)>>

PyClassSource ==
    <<"c", "l", "a", "s", "s", " ", "C", ":", "\n",
      " ", "d", "e", "f", " ", "m", "(", "s", ")", ":", "\n",
      " ", " ", "g", "\n">>

PyClassTree ==
    <<Node("module", 0, <<0, 0>>, <<3, 0>>),
      Node("class_definition", 1, <<0, 0>>, <<2, 3>>),
      Node("class", 2, <<0, 0>>, <<0, 5>>),
      Node("identifier", 2, <<0, 6>>, <<0, 7>>),
      Node(":", 2, <<0, 7>>, <<0, 8>>),
      Node("block", 2, <<1, 1>>, <<2, 3>>),
      Node("function_definition", 3, <<1, 1>>, <<2, 3>>),
      Node("def", 4, <<1, 1>>, <<1, 4>>),
      Node("identifier", 4, <<1, 5>>, <<1, 6>>),
      Node("parameters", 4, <<1, 6>>, <<1, 9>>),
      Node("(", 5, <<1, 6>>, <<1, 7>>),
      Node("identifier", 5, <<1, 7>>, <<1, 8>>),
      Node(")", 5, <<1, 8>>, <<1, 9>>),
      Node(":", 4, <<1, 9>>, <<1, 10>>),
      Node("block", 4, <<2, 2>>, <<2, 3>>),
      Node("expression_statement", 5, <<2, 2>>, <<2, 3>>),
      Node("identifier", 6, <<2, 2>>, <<2, 3>>)>>

JsSource ==
    <<"f", "u", "n", "c", "t", "i", "o", "n", " ", "g", "(", ")", "{", "}", "\n">>

JsTree ==
    <<Node("program", 0, <<0, 0>>, <<1, 0>>),
      Node("function_declaration", 1, <<0, 0>>, <<0, 14>>),
      Node("function", 2, <<0, 0>>, <<0, 8>>),
      Node("identifier", 2, <<0, 9>>, <<0, 10>>),
      Node("formal_parameters", 2, <<0, 10>>, <<0, 12>>),
      Node("statement_block", 2, <<0, 12>>, <<0, 14>>)>>

PlainSource == <<"a", "\n", "\n", " ", "b", InvalidByte>>

RootType(language) ==
    IF language = "python" THEN "module"
    ELSE IF language \in {"javascript", "typescript", "java"} THEN "program"
    ELSE IF language \in {"cpp", "c"} THEN "translation_unit"
    ELSE "source_file"

\* self.parsers[language].parse(bytes(content, 'utf-8'))
ParserTree(language, text) ==
    IF language = "python" /\ text = PySource THEN PyTree
    ELSE IF language = "python" /\ text = PyClassSource THEN PyClassTree
    ELSE IF language \in {"javascript", "typescript"} /\ text = JsSource THEN JsTree
    ELSE LET lines == Split(text)
         IN  <<Node(RootType(language), 0, <<0, 0>>,
                    <<Len(lines) - 1, Len(lines[Len(lines)])>>)>>

(***************************************************************************)
(* parse_file.  env is what the call meets outside the program: the state  *)
(* of the file, whether the parser raises, and whether the tree is deeper  *)
(* than the interpreter's recursion limit (the walker then raises          *)
(* RecursionError).                                                        *)
(***************************************************************************)
\* the if/elif chain on the language
Dispatch(language, t, text) ==
    IF language = "python" THEN _parse_python(t, text)
    ELSE IF language \in {"javascript", "typescript"} THEN _parse_javascript(t, text)
    ELSE IF language = "java" THEN _parse_java(t, text)
    ELSE IF language \in {"cpp", "c"} THEN _parse_cpp(t, text)
    ELSE IF language = "go" THEN _parse_go(t, text)
    ELSE _parse_rust(t, text)

\* the language parse_file works with after `if not language: ...`
ResolveLanguage(file_path, language) ==
    IF Falsy(language) THEN _detect_language(file_path) ELSE language

\* parse_file whose except branch returns an empty result without a
\* diagnostic instead of the fallback
parse_file_swallows_errors(ps, file_path, language, env) ==
    LET lang == ResolveLanguage(file_path, language)
        read == ReadFile(env.file)
    IN  IF Falsy(lang) \/ lang \notin DOMAIN ps THEN _fallback_parse(file_path, env.file)
        ELSE IF read.raised \/ env.parser_raises \/ env.too_deep
        THEN Ret([language |-> lang, functions |-> <<>>, classes |-> <<>>,
                  imports |-> <<>>, errors |-> <<>>])
        ELSE IF lang \in DOMAIN language_configs
        THEN Ret(Dispatch(lang, ParserTree(lang, read.value), read.value))
        ELSE _fallback_parse(file_path, env.file)

\* parse_file whose fallback result names the declared language when the
\* caller passed one
parse_file_fallback_keeps_language(ps, file_path, language, env) ==
    LET lang == ResolveLanguage(file_path, language)
        read == ReadFile(env.file)
        fallback == _fallback_parse(file_path, env.file).value
        kept == Ret([fallback EXCEPT !.language = IF Falsy(language) THEN @ ELSE language])
    IN  IF Falsy(lang) \/ lang \notin DOMAIN ps THEN kept
        ELSE IF read.raised \/ env.parser_raises \/ env.too_deep THEN kept
        ELSE IF lang \in DOMAIN language_configs
        THEN Ret(Dispatch(lang, ParserTree(lang, read.value), read.value))
        ELSE kept

parse_file(ps, file_path, language, env) ==
    LET lang == ResolveLanguage(file_path, language)
        read == ReadFile(env.file)
    IN  IF Falsy(lang) \/ lang \notin DOMAIN ps THEN _fallback_parse(file_path, env.file)
        ELSE IF read.raised \/ env.parser_raises \/ env.too_deep
        THEN _fallback_parse(file_path, env.file)      \* except Exception
        ELSE IF lang \in DOMAIN language_configs
        THEN Ret(Dispatch(lang, ParserTree(lang, read.value), read.value))
        ELSE _fallback_parse(file_path, env.file)

(***************************************************************************)
(* batch_parse_files: what one iteration of the loop stores for file_info. *)
(***************************************************************************)
BatchEntry(ps, file_info, env) ==
    LET parsed_result == parse_file(ps, file_info.full_path, file_info.language, env)
    IN  IF ~parsed_result.raised
        THEN [file_info |-> file_info] @@ parsed_result.value
        ELSE [language |-> IF Falsy(file_info.language) THEN "unknown"
                           ELSE file_info.language,
              functions |-> <<>>, classes |-> <<>>, imports |-> <<>>,
              errors |-> <<FailedMessage(parsed_result.value)>>,
              file_info |-> file_info]

\* an iteration that drops the entries stored so far when its file fails
LoopBodyDropsSiblings(ps, rs, file_info, env) ==
    LET entry == BatchEntry(ps, file_info, env)
    IN  IF entry.errors # <<>> /\ entry.errors[1].text = "Parsing failed: "
        THEN (file_info.path :> entry)
        ELSE (file_info.path :> entry) @@ rs

\* an iteration that stores nothing when its file fails
LoopBodySkipsFailure(ps, rs, file_info, env) ==
    LET entry == BatchEntry(ps, file_info, env)
    IN  IF entry.errors # <<>> /\ entry.errors[1].text = "Parsing failed: "
        THEN rs
        ELSE (file_info.path :> entry) @@ rs

\* an iteration that keeps the entry a path already has
LoopBodyKeepsFirst(ps, rs, file_info, env) ==
    rs @@ (file_info.path :> BatchEntry(ps, file_info, env))

\* one iteration of the loop: the results dict after results[path] = entry
LoopBody(ps, rs, file_info, env) ==
    (file_info.path :> BatchEntry(ps, file_info, env)) @@ rs

(***************************************************************************)
(* The files and the calls of the model.                                   *)
(***************************************************************************)
Root == <<"/", "r", "/">>

PyPath == <<"m", ".", "p", "y">>

TsPath == <<"A", ".", "T", "S">>

CPath == <<"x", ".", "c">>

TxtPath == <<"n", ".", "t", "x", "t">>

\* a second Python file, which holds a class
ClassPath == <<"k", ".", "p", "y">>

RelPaths == {PyPath, TsPath, CPath, TxtPath}

FullPath(path) == Root \o path

FullPaths == {FullPath(p) : p \in RelPaths}

InitialBytes(path) ==
    IF path = PyPath THEN PySource
    ELSE IF path = ClassPath THEN PyClassSource
    ELSE IF path = TsPath THEN JsSource
    ELSE PlainSource

\* the language a caller passes: none, registry keys, the file lister's name
DeclaredLanguages == {None, "", "python", "java", "go", "Python"}

\* a file descriptor as get_file_list builds it, with any declared language
Descriptor(path, language) ==
    [path |-> path, full_path |-> FullPath(path), language |-> language,
     size |-> Len(InitialBytes(path))]

\* the descriptors handed to batch_parse_files
BatchPaths == {PyPath, TsPath, TxtPath}

BatchLanguages == {None, "python", "Python"}

Descriptors == {Descriptor(p, l) : p \in BatchPaths, l \in BatchLanguages}

\* the installations of the batch runs: every grammar loads, or all but Python's
BatchGrammars == {AllLoaded, Grammars({"tree_sitter_python"}, {})}

\* what a call can meet: the parser and the walker have an outcome only when
\* the call reaches them (a registered language and a readable file)
Envs(ps, file_path, language, state) ==
    {[file |-> state, parser_raises |-> pr, too_deep |-> td] :
        <<pr, td>> \in
            IF ResolveLanguage(file_path, language) \in DOMAIN ps /\ state.exists
            THEN {<<FALSE, FALSE>>, <<TRUE, FALSE>>, <<FALSE, TRUE>>}
            ELSE {<<FALSE, FALSE>>}}

NoCall == [made |-> FALSE]

Call(file_path, language, env, outcome) ==
    [made |-> TRUE, file_path |-> file_path, language |-> language, env |-> env,
     outcome |-> outcome]

EmptyDict == <<>>

FailureSets == {f \in SUBSET Modules : Cardinality(f) <= MaxFailed}

\* the installations where at most MaxFailed grammars fail to load
LoadFailures == {Grammars(f, {}) : f \in FailureSets}

SeqsUpTo(S, n) == UNION {[1..k -> S] : k \in 0..n}

(***************************************************************************)
(* Specification SpecParse: single parse_file calls on a changing file     *)
(* system.                                                                 *)
(***************************************************************************)
Idle ==
    /\ file_list = <<>>
    /\ idx = 0
    /\ results = EmptyDict
    /\ seen = <<>>
    /\ tree = <<>>
    /\ content = <<>>
    /\ out = NoCall

InitParse ==
    /\ \E g \in LoadFailures : Constructed(g)
    /\ fs = [f \in FullPaths |-> File(InitialBytes(SubSeq(f, Len(Root) + 1, Len(f))))]
    /\ call = NoCall
    /\ NoPipeline
    /\ Idle

\* a call of parse_file that also stores a parser for a language whose
\* grammar is loaded but that has none yet
ParseFileCallCachingParser(file_path, language) ==
    /\ \E env \in Envs(parsers, file_path, language, fs[file_path]) :
          call' = Call(file_path, language, env, parse_file(parsers, file_path, language, env))
    /\ LET lang == ResolveLanguage(file_path, language)
       IN  parsers' = IF lang \in DOMAIN languages /\ lang \notin DOMAIN parsers
                      THEN (lang :> languages[lang]) @@ parsers
                      ELSE parsers
    /\ UNCHANGED <<pipelineVars, grammars, languages, fs, batchVars, extractVars>>

\* a call of parse_file that throws away the parser of its language when
\* that parser raised
ParseFileCallDroppingParser(file_path, language) ==
    /\ \E env \in Envs(parsers, file_path, language, fs[file_path]) :
          /\ call' = Call(file_path, language, env, parse_file(parsers, file_path, language, env))
          /\ parsers' = IF env.parser_raises
                         THEN [l \in DOMAIN parsers \ {ResolveLanguage(file_path, language)}
                                 |-> parsers[l]]
                         ELSE parsers
    /\ UNCHANGED <<pipelineVars, grammars, languages, fs, batchVars, extractVars>>

\* a caller invokes parse_file(file_path, language)
ParseFileCall(file_path, language) ==
    /\ \E env \in Envs(parsers, file_path, language, fs[file_path]) :
          call' = Call(file_path, language, env, parse_file(parsers, file_path, language, env))
    /\ UNCHANGED <<pipelineVars, registry, fs, batchVars, extractVars>>

\* the environment deletes a file
DeleteFile(file_path) ==
    /\ fs[file_path].exists
    /\ fs' = [fs EXCEPT ![file_path] = Missing]
    /\ UNCHANGED <<pipelineVars, registry, batchVars, call, extractVars>>

NextParse ==
    \/ \E f \in FullPaths, l \in DeclaredLanguages : ParseFileCall(f, l)
    \/ \E f \in FullPaths : DeleteFile(f)

SpecParse == InitParse /\ [][NextParse]_vars

(***************************************************************************)
(* Specification Spec: batch_parse_files, one step per iteration of its    *)
(* loop, on a changing file system.                                        *)
(***************************************************************************)
Init ==
    /\ \E g \in BatchGrammars : Constructed(g)
    /\ fs = [f \in FullPaths |-> File(InitialBytes(SubSeq(f, Len(Root) + 1, Len(f))))]
    /\ call = NoCall
    /\ NoPipeline
    /\ Idle

BatchStart(fl) ==
    /\ idx = 0
    /\ file_list' = fl
    /\ results' = EmptyDict
    /\ seen' = <<>>
    /\ idx' = 1
    /\ UNCHANGED <<pipelineVars, registry, fs, call, extractVars>>

BatchStep ==
    /\ idx \in 1..Len(file_list)
    /\ LET file_info == file_list[idx]
       IN  \E env \in Envs(parsers, file_info.full_path, file_info.language,
                                 fs[file_info.full_path]) :
              /\ results' = LoopBody(parsers, results, file_info, env)
              /\ seen' = Append(seen, env)
    /\ idx' = idx + 1
    /\ UNCHANGED <<pipelineVars, registry, fs, file_list, call, extractVars>>

\* `return results`: the mapping goes to the caller and the frame is gone
BatchReturn ==
    /\ idx = Len(file_list) + 1
    /\ idx' = 0
    /\ file_list' = <<>>
    /\ results' = EmptyDict
    /\ seen' = <<>>
    /\ UNCHANGED <<pipelineVars, registry, fs, call, extractVars>>

Next ==
    \/ \E fl \in SeqsUpTo(Descriptors, MaxFiles) : BatchStart(fl)
    \/ BatchStep
    \/ BatchReturn
    \/ \E p \in BatchPaths : DeleteFile(FullPath(p))

Spec == Init /\ [][Next]_vars

(***************************************************************************)
(* Specification SpecSetup: the construction of the parser object in every *)
(* installation where at most MaxFailed grammars fail at each point.       *)
(***************************************************************************)
Installations == {Grammars(l, p) : l \in FailureSets, p \in FailureSets}

\* __init__ before its call of _setup_languages: both dicts are empty
InitSetup ==
    /\ grammars \in Installations
    /\ languages = EmptyDict
    /\ parsers = EmptyDict
    /\ fs = [f \in FullPaths |-> File(InitialBytes(SubSeq(f, Len(Root) + 1, Len(f))))]
    /\ call = NoCall
    /\ NoPipeline
    /\ Idle

\* self._setup_languages()
SetupLanguages ==
    /\ out = NoCall
    /\ languages' = _setup_languages(grammars).languages
    /\ parsers' = _setup_languages(grammars).parsers
    /\ out' = [made |-> TRUE]
    /\ UNCHANGED <<pipelineVars, grammars, fs, batchVars, call, tree, content>>

NextSetup == SetupLanguages

SpecSetup == InitSetup /\ [][NextSetup]_vars

(***************************************************************************)
(* Specification SpecRegistry: parse_file calls between the iterations of  *)
(* batch_parse_files, on one parser object.                                *)
(***************************************************************************)
\* every grammar works, Python's fails to load, Python's parser cannot be set
RegistryGrammars ==
    {AllLoaded, Grammars({"tree_sitter_python"}, {}), Grammars({}, {"tree_sitter_python"})}

RegistryPaths == {PyPath, TxtPath}

RegistryDescriptors == {Descriptor(PyPath, "python"), Descriptor(TxtPath, None)}

InitRegistry ==
    /\ \E g \in RegistryGrammars : Constructed(g)
    /\ fs = [f \in FullPaths |-> File(InitialBytes(SubSeq(f, Len(Root) + 1, Len(f))))]
    /\ call = NoCall
    /\ NoPipeline
    /\ Idle

NextRegistry ==
    \/ \E p \in RegistryPaths, l \in {None, "python"} : ParseFileCall(FullPath(p), l)
    \/ \E fl \in SeqsUpTo(RegistryDescriptors, MaxFiles) : BatchStart(fl)
    \/ BatchStep
    \/ BatchReturn
    \/ DeleteFile(FullPath(PyPath))

SpecRegistry == InitRegistry /\ [][NextRegistry]_vars

(***************************************************************************)
(* Specification SpecDetect: _detect_language on file names built from a   *)
(* directory, a stem and an extension, and parse_file on the same name     *)
(* without a declared language.                                            *)
(***************************************************************************)
UpperChar(c) ==
    IF \E i \in 1..Len(Lowered) : Lowered[i] = c
    THEN Upper[CHOOSE i \in 1..Len(Lowered) : Lowered[i] = c]
    ELSE c

UpperCased(s) == [i \in 1..Len(s) |-> UpperChar(s[i])]

\* no directory, a plain one, one with a dot in its name
Directories == {<<>>, Root, <<"d", ".", "p", "y", "/">>}

\* a plain stem, one that holds a dot, none (the name is the extension alone)
Stems == {<<"m">>, <<"m", ".", "j", "s">>, <<>>}

\* the extensions of the table, in lower and in upper case, and others
Extensions ==
    DOMAIN extension_map
    \cup {UpperCased(e) : e \in DOMAIN extension_map}
    \cup {<<>>, <<".">>, <<"p", "y">>, <<".", "p">>, <<".", "p", "y", "c">>,
          <<".", "t", "x", "t">>, <<".", "h">>, <<".", "P", "y">>}

FileNames == {d \o m \o e : d \in Directories, m \in Stems, e \in Extensions}

InitDetect ==
    /\ Constructed(AllLoaded)
    /\ fs = [f \in FullPaths |-> Missing]
    /\ call = NoCall
    /\ NoPipeline
    /\ Idle

\* self._detect_language(file_path)
DetectLanguageCall(file_path) ==
    /\ out = NoCall
    /\ out' = [made |-> TRUE, file_path |-> file_path,
               language |-> _detect_language(file_path)]
    /\ UNCHANGED <<pipelineVars, registry, fs, batchVars, call, tree, content>>

\* parse_file(file_path) on the same name, an existing file, no language
\* declared
ParseUndeclared ==
    /\ out.made
    /\ call = NoCall
    /\ \E env \in Envs(parsers, out.file_path, None, File(PlainSource)) :
          call' = Call(out.file_path, None, env, parse_file(parsers, out.file_path, None, env))
    /\ UNCHANGED <<pipelineVars, registry, fs, batchVars, extractVars>>

NextDetect ==
    \/ \E f \in FileNames : DetectLanguageCall(f)
    \/ ParseUndeclared

SpecDetect == InitDetect /\ [][NextDetect]_vars

(***************************************************************************)
(* Generated syntax trees.  The parser is a collaborator: any tree whose   *)
(* nodes lie inside their parents and start in pre-order may come back.    *)
(* The source has MaxRow + 1 lines "ab"; an identifier is the "a" of its   *)
(* row, every other node runs to the end of its last row.                  *)
(***************************************************************************)
RECURSIVE SourceOfRows(_)
SourceOfRows(r) ==
    IF r = 0 THEN <<"a", "b">> ELSE SourceOfRows(r - 1) \o <<"\n", "a", "b">>

TreeSource == SourceOfRows(MaxRow)

\* the same source with the two-byte character for every "a"
WideSource == [i \in 1..Len(TreeSource) |-> IF TreeSource[i] = "a" THEN Wide ELSE TreeSource[i]]

\* the end column the parser reports for a node that ends on row erow of the
\* text: columns count bytes
EndColumn(text, type, erow) ==
    LET row == Split(text)[erow + 1]
    IN  IF type = "identifier" THEN ByteLen(SubSeq(row, 1, 1)) ELSE ByteLen(row)

LeafTypes == {"identifier", "string"}

PythonTypes == {"function_definition", "class_definition", "identifier", "block",
                "if_statement"}

JavascriptTypes == {"function_declaration", "arrow_function", "class_declaration",
                    "identifier", "if_statement"}

ComplexityTypes == {"function_definition", "block"} \cup BranchTypes

RootNode(type) == Node(type, 0, <<0, 0>>, <<MaxRow, 2>>)

\* a class with a name and an empty body, spanning the source
ClassSkeleton ==
    <<RootNode("module"),
      Node("class_definition", 1, <<0, 0>>, <<MaxRow, 2>>),
      Node("identifier", 2, <<0, 0>>, <<0, 1>>),
      Node("block", 2, <<0, 0>>, <<MaxRow, 2>>)>>

\* a function with a name and an empty body, spanning the text
FunctionSkeleton(text) ==
    <<Node("module", 0, <<0, 0>>, <<MaxRow, EndColumn(text, "module", MaxRow)>>),
      Node("function_definition", 1, <<0, 0>>, <<MaxRow, EndColumn(text, "function_definition", MaxRow)>>),
      Node("identifier", 2, <<0, 0>>, <<0, EndColumn(text, "identifier", 0)>>),
      Node("block", 2, <<0, 0>>, <<MaxRow, EndColumn(text, "block", MaxRow)>>)>>

SeedLength(t) ==
    IF Len(t) >= Len(ClassSkeleton) /\ SubSeq(t, 1, Len(ClassSkeleton)) = ClassSkeleton
    THEN Len(ClassSkeleton) ELSE 1

\* the last node before position j with the given depth
LastAtDepth(t, depth) ==
    CHOOSE i \in 1..Len(t) : t[i].depth = depth /\ \A k \in (i + 1)..Len(t) : t[k].depth # depth

\* the parser's tree gets one more node, the next in pre-order; seed is the
\* number of nodes the tree started with
Grow(type, srow, erow, seed) ==
    /\ out = NoCall
    /\ Len(tree) - seed < MaxNodes - 1
    /\ srow <= erow
    /\ erow < Len(Split(content))
    /\ type = "identifier" => srow = erow
    /\ \E depth \in 1..(tree[Len(tree)].depth + 1) :
          LET parent == tree[LastAtDepth(tree, depth - 1)]
          IN  /\ parent.type \notin LeafTypes
              /\ srow >= parent.start_point[1]
              /\ srow >= tree[Len(tree)].start_point[1]
              /\ erow <= parent.end_point[1]
              /\ tree' = Append(tree, Node(type, depth, <<srow, 0>>,
                                           <<erow, EndColumn(content, type, erow)>>))
    /\ UNCHANGED <<pipelineVars, registry, fs, batchVars, call, content, out>>

InitExtract(roots) ==
    /\ Constructed(AllLoaded)
    /\ fs = [f \in FullPaths |-> Missing]
    /\ file_list = <<>>
    /\ idx = 0
    /\ results = EmptyDict
    /\ seen = <<>>
    /\ call = NoCall
    /\ NoPipeline
    /\ tree \in roots
    /\ content = TreeSource
    /\ out = NoCall

(***************************************************************************)
(* Specification SpecTree: the walker and its rules on generated trees.    *)
(***************************************************************************)
InitTree == InitExtract({<<RootNode("module")>>, <<RootNode("program")>>, ClassSkeleton})

GrowPython ==
    /\ tree[1].type = "module"
    /\ \E type \in PythonTypes, srow \in 0..MaxRow, erow \in 0..MaxRow :
          Grow(type, srow, erow, SeedLength(tree))

GrowJavascript ==
    /\ tree[1].type = "program"
    /\ \E type \in JavascriptTypes, srow \in 0..MaxRow, erow \in 0..MaxRow :
          Grow(type, srow, erow, SeedLength(tree))

\* _parse_python(tree, content)
WalkPython ==
    /\ out = NoCall
    /\ tree[1].type = "module"
    /\ out' = [made |-> TRUE, language |-> "python", result |-> _parse_python(tree, content)]
    /\ UNCHANGED <<pipelineVars, registry, fs, batchVars, call, tree, content>>

\* _parse_javascript(tree, content)
WalkJavascript ==
    /\ out = NoCall
    /\ tree[1].type = "program"
    /\ out' = [made |-> TRUE, language |-> "javascript",
               result |-> _parse_javascript(tree, content)]
    /\ UNCHANGED <<pipelineVars, registry, fs, batchVars, call, tree, content>>

NextTree == GrowPython \/ GrowJavascript \/ WalkPython \/ WalkJavascript

SpecTree == InitTree /\ [][NextTree]_vars

(***************************************************************************)
(* Specification SpecWalk: the walkers on trees of functions and classes   *)
(* whose nodes lie on one line each, below the root or in the body of a    *)
(* class that spans the text; the walker gets the text of the tree or a    *)
(* text that lacks its last line.                                          *)
(***************************************************************************)
WalkPythonTypes == {"function_definition", "class_definition", "identifier", "block"}

WalkJavascriptTypes == {"function_declaration", "class_declaration", "identifier"}

GrowPythonWalk ==
    /\ tree[1].type = "module"
    /\ \E type \in WalkPythonTypes, row \in 0..MaxRow : Grow(type, row, row, SeedLength(tree))

GrowJavascriptWalk ==
    /\ tree[1].type = "program"
    /\ \E type \in WalkJavascriptTypes, row \in 0..MaxRow :
          Grow(type, row, row, SeedLength(tree))

\* the text without its last line
WithoutLastLine(text) ==
    SubSeq(text, 1, (CHOOSE i \in 1..Len(text) :
                        text[i] = "\n" /\ \A j \in (i + 1)..Len(text) : text[j] # "\n") - 1)

\* _parse_python(tree, content) with a content that lacks the last line of
\* the text the tree was built from: the rules raise IndexError on its nodes
WalkPythonShort ==
    /\ out = NoCall
    /\ tree[1].type = "module"
    /\ content = TreeSource
    /\ content' = WithoutLastLine(content)
    /\ out' = [made |-> TRUE, language |-> "python",
               result |-> _parse_python(tree, content')]
    /\ UNCHANGED <<pipelineVars, registry, fs, batchVars, call, tree>>

\* _parse_javascript(tree, content) with such a content
WalkJavascriptShort ==
    /\ out = NoCall
    /\ tree[1].type = "program"
    /\ content = TreeSource
    /\ content' = WithoutLastLine(content)
    /\ out' = [made |-> TRUE, language |-> "javascript",
               result |-> _parse_javascript(tree, content')]
    /\ UNCHANGED <<pipelineVars, registry, fs, batchVars, call, tree>>

NextWalk ==
    \/ GrowPythonWalk
    \/ GrowJavascriptWalk
    \/ WalkPython
    \/ WalkJavascript
    \/ WalkPythonShort
    \/ WalkJavascriptShort

SpecWalk == InitTree /\ [][NextWalk]_vars

(***************************************************************************)
(* Specification SpecNames: the walkers on trees of functions, classes,    *)
(* assignments and names, in an ASCII and in a non-ASCII text.             *)
(***************************************************************************)
PythonNameTypes == {"function_definition", "class_definition", "assignment",
                    "identifier", "attribute"}

JavascriptNameTypes == {"function_declaration", "arrow_function", "identifier"}

InitNames ==
    /\ Constructed(AllLoaded)
    /\ fs = [f \in FullPaths |-> Missing]
    /\ file_list = <<>>
    /\ idx = 0
    /\ results = EmptyDict
    /\ seen = <<>>
    /\ call = NoCall
    /\ NoPipeline
    /\ content \in {TreeSource, WideSource}
    /\ \E type \in {"module", "program"} :
          tree = <<Node(type, 0, <<0, 0>>, <<MaxRow, EndColumn(content, type, MaxRow)>>)>>
    /\ out = NoCall

GrowPythonNames ==
    /\ tree[1].type = "module"
    /\ \E type \in PythonNameTypes, srow \in 0..MaxRow, erow \in 0..MaxRow :
          Grow(type, srow, erow, 1)

GrowJavascriptNames ==
    /\ tree[1].type = "program"
    /\ \E type \in JavascriptNameTypes, srow \in 0..MaxRow, erow \in 0..MaxRow :
          Grow(type, srow, erow, 1)

NextNames == GrowPythonNames \/ GrowJavascriptNames \/ WalkPython \/ WalkJavascript

SpecNames == InitNames /\ [][NextNames]_vars

(***************************************************************************)
(* Specification SpecDocstring: _parse_python on a function whose body the *)
(* parser fills with statements, in an ASCII and in a non-ASCII text.      *)
(***************************************************************************)
StatementTypes == {"expression_statement", "string", "pass_statement"}

InitDocstring ==
    /\ Constructed(AllLoaded)
    /\ fs = [f \in FullPaths |-> Missing]
    /\ file_list = <<>>
    /\ idx = 0
    /\ results = EmptyDict
    /\ seen = <<>>
    /\ call = NoCall
    /\ NoPipeline
    /\ content \in {TreeSource, WideSource}
    /\ tree = FunctionSkeleton(content)
    /\ out = NoCall

GrowBody ==
    \E type \in StatementTypes, srow \in 0..MaxRow, erow \in 0..MaxRow :
        Grow(type, srow, erow, Len(FunctionSkeleton(content)))

NextDocstring == GrowBody \/ WalkPython

SpecDocstring == InitDocstring /\ [][NextDocstring]_vars

(***************************************************************************)
(* Specification SpecComplexity: _calculate_complexity on every node of    *)
(* generated trees of functions, blocks and branching statements.          *)
(***************************************************************************)
InitComplexity == InitExtract({<<RootNode("module")>>})

GrowBranches == \E type \in ComplexityTypes : Grow(type, 0, 0, 1)

Complexity ==
    /\ out = NoCall
    /\ out' = [made |-> TRUE,
               complexity |-> [n \in 1..Len(tree) |-> _calculate_complexity(tree, n)]]
    /\ UNCHANGED <<pipelineVars, registry, fs, batchVars, call, tree, content>>

NextComplexity == GrowBranches \/ Complexity

SpecComplexity == InitComplexity /\ [][NextComplexity]_vars

(***************************************************************************)
(* Specification SpecFallback: _fallback_parse on generated file contents. *)
(***************************************************************************)
ContentBytes == {"a", " ", "\n", InvalidByte}

\* ten lines, three of them blank, no newline after the last
TenLines ==
    <<"a", "\n", "\n", "a", "\n", "a", "\n", " ", "\n", "a", "\n", "a", "\n",
      "\n", "a", "\n", "a">>

InitFallback ==
    /\ Constructed(AllLoaded)
    /\ fs = [f \in FullPaths |-> Missing]
    /\ file_list = <<>>
    /\ idx = 0
    /\ results = EmptyDict
    /\ seen = <<>>
    /\ call = NoCall
    /\ NoPipeline
    /\ tree = <<>>
    /\ content \in {<<>>, TenLines, Append(TenLines, "\n")}
    /\ out = NoCall

\* the file gets one more byte
WriteByte(b) ==
    /\ out = NoCall
    /\ Len(content) < MaxLen
    /\ content' = Append(content, b)
    /\ UNCHANGED <<pipelineVars, registry, fs, batchVars, call, tree, out>>

\* _fallback_parse(file_path) on the file holding `content`
FallbackCall(file_path) ==
    /\ out = NoCall
    /\ out' = [made |-> TRUE, file_path |-> file_path,
               outcome |-> _fallback_parse(file_path, File(content))]
    /\ UNCHANGED <<pipelineVars, registry, fs, batchVars, call, tree, content>>

NextFallback ==
    \/ \E b \in ContentBytes : WriteByte(b)
    \/ \E f \in FullPaths : FallbackCall(f)

SpecFallback == InitFallback /\ [][NextFallback]_vars

(***************************************************************************)
(* Properties of parse_file (specification SpecParse).                     *)
(***************************************************************************)
\* the language parse_file resolved for the recorded call
CallLanguage == ResolveLanguage(call.file_path, call.language)

\* the recorded call took no exception path: the language is registered, the
\* file was read, the parser returned and the walker finished
CallSucceeds ==
    /\ ~Falsy(CallLanguage)
    /\ CallLanguage \in DOMAIN parsers
    /\ call.env.file.exists
    /\ ~call.env.parser_raises
    /\ ~call.env.too_deep

\* the fallback shape: nothing extracted, and a diagnostic
IsFallbackShape(r) ==
    /\ {"functions", "classes", "imports", "errors"} \subseteq DOMAIN r
    /\ r.functions = <<>>
    /\ r.classes = <<>>
    /\ r.imports = <<>>
    /\ r.errors # <<>>

\* C1: parse_file never raises: whatever the file (readable, undecodable,
\* missing), the declared language (None, empty, registered, unregistered,
\* unknown) and the outcome of the parser and of the walker, the call returns
\* a result record with a language, a functions list and an errors list.
C1_ParseFileNeverRaises ==
    call.made =>
        /\ ~call.outcome.raised
        /\ {"language", "functions", "errors"} \subseteq DOMAIN call.outcome.value

\* a call with a registered language on a missing file has returned
C1_Witness ==
    /\ call.made
    /\ CallLanguage \in DOMAIN parsers
    /\ ~call.env.file.exists
    /\ ~call.outcome.raised

\* C5 (as the spec states it): whenever the language is recognized and
\* registered and the parse succeeds, the result's language field is the
\* detected / declared language.
C5_LanguageFieldIsResolvedLanguage ==
    (call.made /\ CallSucceeds) => call.outcome.value.language = CallLanguage

\* C8: parse_file returns the fallback result exactly when the language is
\* unrecognized, has no registered parser, or reading, parsing or extraction
\* raised; in every other case it returns what the rule set of the language
\* extracts from the parser's tree, which carries no diagnostic.
C8_FallbackExactlyOnFailure ==
    call.made =>
        /\ ~call.outcome.raised
        /\ IsFallbackShape(call.outcome.value) <=> ~CallSucceeds
        /\ CallSucceeds =>
              LET text == Decode(call.env.file.bytes)
              IN  /\ call.outcome.value.errors = <<>>
                  /\ call.outcome.value
                        = Dispatch(CallLanguage, ParserTree(CallLanguage, text), text)

\* a parser crash on a readable file of a registered language was routed to
\* the fallback
C8_Witness ==
    /\ call.made
    /\ call.env.parser_raises
    /\ CallLanguage \in DOMAIN parsers
    /\ call.env.file.exists
    /\ IsFallbackShape(call.outcome.value)

\* C10: when the file cannot be read, parse_file returns a result holding
\* only the error diagnostic: language 'unknown', empty functions, classes and
\* imports, exactly one 'Parsing failed' message, and no line metrics.
C10_UnreadableFileGivesErrorOnly ==
    (call.made /\ ~call.env.file.exists) =>
        /\ ~call.outcome.raised
        /\ DOMAIN call.outcome.value
              = {"language", "functions", "classes", "imports", "errors"}
        /\ call.outcome.value.language = "unknown"
        /\ call.outcome.value.functions = <<>>
        /\ call.outcome.value.classes = <<>>
        /\ call.outcome.value.imports = <<>>
        /\ Len(call.outcome.value.errors) = 1
        /\ call.outcome.value.errors[1].text = "Parsing failed: "

\* a call on a deleted Python file whose grammar is registered
C10_Witness ==
    /\ call.made
    /\ ~call.env.file.exists
    /\ call.file_path = FullPath(PyPath)
    /\ CallLanguage = "python"
    /\ "python" \in DOMAIN parsers
    /\ Len(call.outcome.value.errors) = 1

\* C17 (as the spec states it): for each language without extraction rules
\* (java, cpp, c, go, rust), a successful parse returns a result that has
\* the fields functions, classes and imports, all empty, and no error.
C17_NoRuleLanguagesGiveEmptyFields ==
    (call.made /\ CallSucceeds /\ CallLanguage \in {"java", "cpp", "c", "go", "rust"}) =>
        /\ {"functions", "classes", "imports", "errors"} \subseteq DOMAIN call.outcome.value
        /\ call.outcome.value.functions = <<>>
        /\ call.outcome.value.classes = <<>>
        /\ call.outcome.value.imports = <<>>
        /\ call.outcome.value.errors = <<>>

(***************************************************************************)
(* Properties of the registry (specifications SpecSetup and SpecRegistry). *)
(***************************************************************************)
\* the languages whose grammar fails: the import, the Language object, the
\* parser or setting its language raises
FailedLanguages ==
    {l \in DOMAIN language_configs :
        language_configs[l] \in grammars.load_fails \cup grammars.parser_fails}

\* C18 (as the spec states it): after construction, whatever grammars fail,
\* languages and parsers have the same keys: no failed language is in either
\* and every other language is in both.
C18_RegistryOmitsFailedLanguages ==
    out.made =>
        /\ DOMAIN languages = DOMAIN parsers
        /\ FailedLanguages \cap (DOMAIN languages \cup DOMAIN parsers) = {}
        /\ (DOMAIN language_configs \ FailedLanguages)
              \subseteq (DOMAIN languages \cap DOMAIN parsers)

\* C19: no step of a parse_file call or of batch_parse_files, in any
\* interleaving, changes languages or parsers, keys or values, also when the
\* call fails or takes the fallback.
C19_CallsLeaveRegistryUnchanged ==
    [][languages' = languages /\ parsers' = parsers]_vars

\* a parse_file call has taken the fallback for a language whose grammar is
\* loaded but has no parser, between two iterations of a batch, and the
\* registry is as the construction left it
C19_Witness ==
    /\ call.made
    /\ CallLanguage \in DOMAIN languages
    /\ CallLanguage \notin DOMAIN parsers
    /\ IsFallbackShape(call.outcome.value)
    /\ idx = 2
    /\ Len(file_list) = 2
    /\ languages = _setup_languages(grammars).languages
    /\ parsers = _setup_languages(grammars).parsers

(***************************************************************************)
(* Properties of _detect_language (specification SpecDetect).              *)
(***************************************************************************)
\* the file name of a path: what follows its last slash
BaseName(p) ==
    LET slashes == {i \in 1..Len(p) : p[i] = "/"}
        last == IF slashes = {} THEN 0 ELSE CHOOSE i \in slashes : \A j \in slashes : j <= i
    IN  SubSeq(p, last + 1, Len(p))

\* the extension of a file name: from its last dot on, when a character
\* other than a dot comes before that dot; empty otherwise
ExtensionOf(name) ==
    LET dots == {i \in 1..Len(name) : name[i] = "."}
        last == IF dots = {} THEN 0 ELSE CHOOSE i \in dots : \A j \in dots : j <= i
    IN  IF last > 1 /\ \E k \in 1..(last - 1) : name[k] # "."
        THEN SubSeq(name, last, Len(name)) ELSE <<>>

\* the table of the claim, on a lower-case extension
LanguageOfExtension(e) ==
    IF e = <<".", "p", "y">> THEN "python"
    ELSE IF e \in {<<".", "j", "s">>, <<".", "j", "s", "x">>} THEN "javascript"
    ELSE IF e \in {<<".", "t", "s">>, <<".", "t", "s", "x">>} THEN "typescript"
    ELSE IF e = <<".", "j", "a", "v", "a">> THEN "java"
    ELSE IF e \in {<<".", "c", "p", "p">>, <<".", "c", "c">>, <<".", "c", "x", "x">>} THEN "cpp"
    ELSE IF e = <<".", "c">> THEN "c"
    ELSE IF e = <<".", "g", "o">> THEN "go"
    ELSE IF e = <<".", "r", "s">> THEN "rust"
    ELSE None

\* C20: _detect_language gives the language of the table for the
\* lower-cased extension of the file name, whatever the directory, the stem
\* and the case, and None for any other extension or none; a file whose
\* language is None, parsed without a declared language, gets the result of
\* the fallback extractor.
C20_DetectionByLowercasedExtension ==
    /\ out.made =>
          out.language = LanguageOfExtension(Lower(ExtensionOf(BaseName(out.file_path))))
    /\ (call.made /\ out.language = None) =>
          /\ ~call.outcome.raised
          /\ IsFallbackShape(call.outcome.value)
          /\ call.outcome.value.language = "unknown"
          /\ call.outcome.value.errors = <<DegradedMessage>>
          /\ "total_lines" \in DOMAIN call.outcome.value

\* a name without extension in a directory whose name ends in .py has no
\* language and was routed to the fallback
C20_WitnessFallback ==
    /\ out.made
    /\ out.file_path = <<"d", ".", "p", "y", "/", "m">>
    /\ out.language = None
    /\ call.made
    /\ IsFallbackShape(call.outcome.value)

(***************************************************************************)
(* Properties of batch_parse_files (specification Spec).                   *)
(***************************************************************************)
AtReturn == idx = Len(file_list) + 1

Processed == 1..(idx - 1)

PathsOf(fl) == {fl[i].path : i \in 1..Len(fl)}

Failed(entry) == entry.errors # <<>> /\ entry.errors[1].text = "Parsing failed: "

\* C2 (as the spec states it): a batch of N descriptors returns a mapping
\* with exactly N entries.
C2_ExactlyNEntries == AtReturn => Cardinality(DOMAIN results) = Len(file_list)

\* C2 (amended): the returned mapping has exactly one entry per distinct
\* relative path of the input, also when a file is missing when it is
\* processed; so it has N entries when the N paths are pairwise distinct.
C2_OneEntryPerDistinctPath ==
    /\ idx > 0 => DOMAIN results = {file_list[i].path : i \in Processed}
    /\ AtReturn =>
          /\ DOMAIN results = PathsOf(file_list)
          /\ Cardinality(PathsOf(file_list)) = Len(file_list)
                => Cardinality(DOMAIN results) = Len(file_list)

\* a batch of two distinct paths returns two entries although the second
\* file was gone when it was processed
C2_Witness ==
    /\ AtReturn
    /\ Len(file_list) = 2
    /\ file_list[1].path # file_list[2].path
    /\ seen[1].file.exists
    /\ ~seen[2].file.exists
    /\ Cardinality(DOMAIN results) = 2

\* C3: a failure on one descriptor leaves every other path's entry as it is:
\* at every point of the loop, the entry of each path is what its (last)
\* processed descriptor yields when processed alone in the environment it
\* met, whatever failed before or after it; every descriptor the loop has
\* passed, those after a failure included, has its entry.
C3_FailureLeavesOtherEntries ==
    idx > 0 =>
        /\ Len(seen) = idx - 1
        /\ \A i \in Processed :
              (\A j \in Processed : j > i => file_list[j].path # file_list[i].path)
                 => /\ file_list[i].path \in DOMAIN results
                    /\ results[file_list[i].path]
                          = BatchEntry(parsers, file_list[i], seen[i])

\* the first descriptor failed, the second was processed after it and both
\* entries are in the mapping, the second one with extracted functions
C3_Witness ==
    /\ AtReturn
    /\ Len(file_list) = 2
    /\ file_list[1].path # file_list[2].path
    /\ Failed(results[file_list[1].path])
    /\ results[file_list[2].path].errors = <<>>
    /\ results[file_list[2].path].functions # <<>>

\* C4 (as the spec states it): for every processed descriptor the language
\* the parser works with is the detector's output for the file name, and the
\* descriptor's language only when the detector yields None.
C4_DetectorTakesPrecedence ==
    \A i \in Processed :
        ResolveLanguage(file_list[i].full_path, file_list[i].language)
            = IF _detect_language(file_list[i].full_path) # None
              THEN _detect_language(file_list[i].full_path)
              ELSE file_list[i].language

(***************************************************************************)
(* Properties of the extraction rules (specification SpecTree).            *)
(***************************************************************************)
\* every function record of a result: the functions and the classes' methods
FunctionRecords(r) ==
    {r.functions[i] : i \in 1..Len(r.functions)}
    \cup UNION {{r.classes[c].methods[m] : m \in 1..Len(r.classes[c].methods)} :
                  c \in 1..Len(r.classes)}

\* C6 (as the spec states it): every function record of every extraction
\* path has 1 <= start_line <= end_line and an integer complexity >= 1.
C6_FunctionRecordsWellFormed ==
    out.made =>
        \A f \in FunctionRecords(out.result) :
            /\ 1 <= f.start_line
            /\ f.start_line <= f.end_line
            /\ "complexity" \in DOMAIN f
            /\ f.complexity >= 1

(***************************************************************************)
(* Properties of the walkers (specification SpecWalk).                     *)
(***************************************************************************)
\* the nodes of the given types, in pre-order
NodesOfTypes(t, types) ==
    LET HasType(n) == t[n].type \in types
    IN  SelectSeq([n \in 1..Len(t) |-> n], HasType)

\* the records Rule yields for the given nodes, in their order
RecordsOf(nodes, Rule(_)) ==
    LET Yields(n) == Rule(n) # NoneOpt
        yielding == SelectSeq(nodes, Yields)
    IN  [i \in 1..Len(yielding) |-> Rule(yielding[i])[1]]

HasIdentifier(t, n) == \E i \in 1..Len(Children(t, n)) : t[Children(t, n)[i]].type = "identifier"

\* C12: the walker reaches every node: for each language, the functions of
\* the result are the records of the function rule for all function nodes of
\* the tree, at any depth and below any node, in pre-order, and likewise the
\* classes; every JavaScript function or class node and every Python one
\* with a name child (the Python rules give no record without it) has its
\* record when no rule raises.
C12_WalkerReachesEveryNode ==
    out.made =>
        LET lines == Split(content)
            PyFunction(n) == _extract_python_function(tree, n, lines)
            PyClass(n) == _extract_python_class(tree, n, lines)
            JsFunction(n) == _extract_js_function(tree, n, lines)
            JsClass(n) == _extract_js_class(tree, n, lines)
            Named(n) == HasIdentifier(tree, n)
            py_functions == NodesOfTypes(tree, {"function_definition"})
            py_classes == NodesOfTypes(tree, {"class_definition"})
            js_functions == NodesOfTypes(tree, JsFunctionTypes)
            js_classes == NodesOfTypes(tree, {"class_declaration"})
        IN  IF out.language = "python"
            THEN /\ out.result.functions = RecordsOf(py_functions, PyFunction)
                 /\ out.result.classes = RecordsOf(py_classes, PyClass)
                 /\ content = TreeSource =>
                       /\ Len(out.result.functions) = Len(SelectSeq(py_functions, Named))
                       /\ Len(out.result.classes) = Len(SelectSeq(py_classes, Named))
            ELSE /\ out.result.functions = RecordsOf(js_functions, JsFunction)
                 /\ out.result.classes = RecordsOf(js_classes, JsClass)
                 /\ content = TreeSource =>
                       /\ Len(out.result.functions) = Len(js_functions)
                       /\ Len(out.result.classes) = Len(js_classes)

\* a function nested in a class nested in a function: both functions and the
\* class have their records
C12_Witness ==
    /\ out.made
    /\ out.language = "javascript"
    /\ Len(tree) = 4
    /\ tree[2].type = "function_declaration" /\ tree[2].depth = 1
    /\ tree[3].type = "class_declaration" /\ tree[3].depth = 2
    /\ tree[4].type = "function_declaration" /\ tree[4].depth = 3
    /\ Len(out.result.functions) = 2
    /\ Len(out.result.classes) = 1

\* the first child of n that has the given type (a node with such a child)
FirstChildOfType(t, n, type) ==
    LET kids == Children(t, n)
    IN  kids[CHOOSE i \in 1..Len(kids) :
                 t[kids[i]].type = type /\ \A j \in 1..(i - 1) : t[kids[j]].type # type]

HasBlock(t, n) == \E i \in 1..Len(Children(t, n)) : t[Children(t, n)[i]].type = "block"

\* the function_definition nodes that are direct children of the body block
\* of the class node n, in source order
DirectMethodNodes(t, n) ==
    LET IsFunction(k) == t[k].type = "function_definition"
    IN  IF HasBlock(t, n) THEN SelectSeq(Children(t, FirstChildOfType(t, n, "block")), IsFunction)
        ELSE <<>>

\* the rule called on n raises: the name the rule reads lies on a line that
\* the content does not have
RuleRaises(n) ==
    /\ HasIdentifier(tree, n)
    /\ tree[FirstChildOfType(tree, n, "identifier")].start_point[1] >= Len(Split(content))

\* C13: when rule invocations raise (the content lacks the line of a name),
\* the failing nodes contribute no record and the walk goes on: the
\* functions and classes of the result are, in pre-order, the records that
\* all other function and class nodes yield on the full text, children and
\* later siblings of a failing node included; a class keeps its record
\* with the methods whose rule did not raise.
C13_RuleFailureSkipsOnlyItsNode ==
    (out.made /\ content # TreeSource) =>
        LET full == Split(TreeSource)
            PyFunction(n) ==
                IF RuleRaises(n) THEN NoneOpt ELSE _extract_python_function(tree, n, full)
            PyClass(n) ==
                IF RuleRaises(n) \/ _extract_python_class(tree, n, full) = NoneOpt THEN NoneOpt
                ELSE Some([_extract_python_class(tree, n, full)[1] EXCEPT
                              !.methods = RecordsOf(DirectMethodNodes(tree, n), PyFunction)])
            JsFunction(n) ==
                IF RuleRaises(n) THEN NoneOpt ELSE _extract_js_function(tree, n, full)
            JsClass(n) ==
                IF RuleRaises(n) THEN NoneOpt ELSE _extract_js_class(tree, n, full)
        IN  IF out.language = "python"
            THEN /\ out.result.functions
                       = RecordsOf(NodesOfTypes(tree, {"function_definition"}), PyFunction)
                 /\ out.result.classes
                       = RecordsOf(NodesOfTypes(tree, {"class_definition"}), PyClass)
            ELSE /\ out.result.functions
                       = RecordsOf(NodesOfTypes(tree, JsFunctionTypes), JsFunction)
                 /\ out.result.classes
                       = RecordsOf(NodesOfTypes(tree, {"class_declaration"}), JsClass)

\* the rule raised on a named function whose name is on the missing line;
\* the anonymous function after it, a later sibling, has its record
C13_Witness ==
    /\ out.made
    /\ content # TreeSource
    /\ out.language = "javascript"
    /\ Len(tree) = 4
    /\ tree[2].type = "function_declaration" /\ tree[2].depth = 1
    /\ tree[3].type = "identifier" /\ tree[3].depth = 2
    /\ RuleRaises(2)
    /\ tree[4].type = "function_declaration" /\ tree[4].depth = 1
    /\ Len(out.result.functions) = 1
    /\ out.result.functions[1].name = Anonymous

\* C15: in every Python result, the methods of each class record are the
\* function records of the function_definition nodes that are direct
\* children of the body block of the class, in source order, and nothing
\* else: a function below a method or below another node of the body is not
\* among them.
C15_MethodsAreDirectChildrenOfBody ==
    (out.made /\ out.language = "python") =>
        LET lines == Split(content)
            PyFunction(n) == _extract_python_function(tree, n, lines)
            Recorded(n) == HasIdentifier(tree, n) /\ ~RuleRaises(n)
            classes == SelectSeq(NodesOfTypes(tree, {"class_definition"}), Recorded)
        IN  /\ Len(out.result.classes) = Len(classes)
            /\ \A i \in 1..Len(classes) :
                  out.result.classes[i].methods
                      = RecordsOf(DirectMethodNodes(tree, classes[i]), PyFunction)

\* a class whose body holds a method directly: the method is in methods
C15_Witness ==
    /\ out.made
    /\ out.language = "python"
    /\ Len(tree) >= Len(ClassSkeleton) + 2
    /\ SubSeq(tree, 1, Len(ClassSkeleton)) = ClassSkeleton
    /\ tree[Len(ClassSkeleton) + 1].type = "function_definition"
    /\ tree[Len(ClassSkeleton) + 1].depth = 3
    /\ tree[Len(ClassSkeleton) + 2].type = "identifier"
    /\ tree[Len(ClassSkeleton) + 2].depth = 4
    /\ Len(out.result.classes) = 1
    /\ Len(out.result.classes[1].methods) = 1

(***************************************************************************)
(* Properties of the docstring lookup (specification SpecDocstring).       *)
(***************************************************************************)
\* the number of characters that the first col bytes of the line hold
CharsIn(line, col) == CHOOSE k \in 0..Len(line) : ByteLen(SubSeq(line, 1, k)) = col

RECURSIVE Offset(_, _, _)
\* the number of characters of the text before column col of row row
Offset(lines, row, col) ==
    IF row = 0 THEN CharsIn(lines[1], col)
    ELSE Len(lines[1]) + 1 + Offset(Tail(lines), row - 1, col)

\* the source text a node spans, from its start point to its end point
SourceText(text, node) ==
    SubSeq(text, Offset(Split(text), node.start_point[1], node.start_point[2]) + 1,
           Offset(Split(text), node.end_point[1], node.end_point[2]))

\* the body block of the function of FunctionSkeleton: its last node
SkeletonBody == Len(FunctionSkeleton(content))

\* the docstring of the function by the rule of the claim: the text of the
\* string when the first statement of the body is a bare string expression
FirstStatementDocstring ==
    LET statements == Children(tree, SkeletonBody)
        first_kids == IF statements = <<>> THEN <<>> ELSE Children(tree, statements[1])
    IN  IF /\ statements # <<>>
           /\ tree[statements[1]].type = "expression_statement"
           /\ Len(first_kids) = 1
           /\ tree[first_kids[1]].type = "string"
        THEN Some(SourceText(content, tree[first_kids[1]]))
        ELSE NoneOpt

\* C11 (as the spec states it): the docstring of an extracted Python function
\* is the exact source text of the string literal when the first statement
\* of its body is a bare string literal, on one line or on several, and None
\* when the first statement is anything else.
C11_DocstringIsFirstStatement ==
    out.made =>
        /\ Len(out.result.functions) = 1
        /\ out.result.functions[1].docstring = FirstStatementDocstring

(***************************************************************************)
(* Properties of _calculate_complexity (specification SpecComplexity).     *)
(***************************************************************************)
\* node n and the nodes below it, at any depth
Subtree(t, n) == {j \in n..Len(t) : \A k \in (n + 1)..j : t[k].depth > t[n].depth}

BranchNodes(t, n) == {j \in Subtree(t, n) : t[j].type \in BranchTypes}

\* C7: the complexity of a node is 1 plus the number of if, while, for and
\* except nodes of its subtree, at any depth and also inside nested
\* functions; a function with no such node has complexity 1 and a function
\* with one if containing one for has complexity 3.
C7_ComplexityCountsBranchNodes ==
    out.made =>
        \A n \in 1..Len(tree) :
            /\ out.complexity[n] = 1 + Cardinality(BranchNodes(tree, n))
            /\ BranchNodes(tree, n) = {} => out.complexity[n] = 1
            /\ (/\ tree[n].type = "function_definition"
                /\ Len(tree) = n + 2
                /\ tree[n + 1].type = "if_statement"
                /\ tree[n + 1].depth = tree[n].depth + 1
                /\ tree[n + 2].type = "for_statement"
                /\ tree[n + 2].depth = tree[n].depth + 2) => out.complexity[n] = 3

\* a function whose body is one if that contains one for got complexity 3
C7_Witness ==
    /\ out.made
    /\ Len(tree) = 4
    /\ tree[2].type = "function_definition"
    /\ tree[3].type = "if_statement" /\ tree[3].depth = 2
    /\ tree[4].type = "for_statement" /\ tree[4].depth = 3
    /\ out.complexity[2] = 3

(***************************************************************************)
(* Properties of _fallback_parse (specification SpecFallback).             *)
(***************************************************************************)
\* the positions where a line of the text starts
LineStarts(text) ==
    {s \in 1..Len(text) : s = 1 \/ text[s - 1] = "\n"}

\* the positions of the line that starts at s, its newline excluded
LineAt(text, s) ==
    {i \in s..Len(text) : \A k \in s..i : text[k] # "\n"}

\* the file's line count: a newline ends a line, it does not start another
LineCount(text) == Cardinality(LineStarts(text))

NonBlankLineCount(text) ==
    Cardinality({s \in LineStarts(text) :
                    \E i \in LineAt(text, s) : text[i] \notin Whitespace})

\* C9 (as the spec states it), for files that are not empty: the fallback
\* result has lines_of_code equal to the number of non-blank lines and
\* total_lines equal to the line count of the file, also when the content
\* ends with a newline; ten lines with three blank ones give 7 and 10.
C9_FallbackCountsLines ==
    (out.made /\ Decode(content) # <<>>) =>
        /\ ~out.outcome.raised
        /\ IsFallbackShape(out.outcome.value)
        /\ out.outcome.value.lines_of_code = NonBlankLineCount(Decode(content))
        /\ out.outcome.value.total_lines = LineCount(Decode(content))

(***************************************************************************)
(* Properties of the names and of the variables (specification SpecNames). *)
(***************************************************************************)
\* the name the claim gives the function node n: the source text of its
\* first identifier child, "anonymous" without one
NameByFirstIdentifier(n) ==
    IF HasIdentifier(tree, n)
    THEN SourceText(content, tree[FirstChildOfType(tree, n, "identifier")])
    ELSE Anonymous

\* C14 (as the spec states it): in both languages with function rules, every
\* function node of the tree has its record, none is dropped for lacking a
\* name, and the name of the record is the text of the first identifier
\* child of the node, or "anonymous" when it has none.
C14_NameIsFirstIdentifierOrAnonymous ==
    out.made =>
        LET nodes == NodesOfTypes(tree, IF out.language = "python"
                                        THEN {"function_definition"} ELSE JsFunctionTypes)
        IN  /\ Len(out.result.functions) = Len(nodes)
            /\ \A i \in 1..Len(nodes) :
                  out.result.functions[i].name = NameByFirstIdentifier(nodes[i])

\* node n lies in the body of a function or of a class
InsideFunctionOrClass(t, n) ==
    \E k \in 1..(n - 1) :
        /\ n \in Subtree(t, k)
        /\ t[k].type \in {"function_definition", "class_definition"}

\* C16 (as the spec states it): the variables of a Python result are the
\* records of the assignment nodes at module scope whose left-hand side is a
\* bare identifier; an assignment inside a function or a class, or with
\* another left-hand side, gives no variable record.
C16_VariablesOnlyAtTopScope ==
    (out.made /\ out.language = "python") =>
        LET Qualifies(n) ==
                /\ ~InsideFunctionOrClass(tree, n)
                /\ Children(tree, n) # <<>>
                /\ tree[Children(tree, n)[1]].type = "identifier"
            nodes == SelectSeq(NodesOfTypes(tree, {"assignment"}), Qualifies)
        IN  /\ Len(out.result.variables) = Len(nodes)
            /\ \A i \in 1..Len(nodes) :
                  out.result.variables[i].line = tree[nodes[i]].start_point[1] + 1

(***************************************************************************)
(* Specification SpecIdempotent: a caller keeps the result of a parse_file *)
(* call, and parse_file calls, batches and a deletion follow in any order. *)
(***************************************************************************)
\* the caller keeps what the last parse_file call returned
KeepResult ==
    /\ call.made
    /\ out = NoCall
    /\ out' = call
    /\ UNCHANGED <<pipelineVars, registry, fs, batchVars, call, tree, content>>

NextIdempotent ==
    \/ \E p \in RegistryPaths, l \in {None, "python"} : ParseFileCall(FullPath(p), l)
    \/ KeepResult
    \/ \E fl \in SeqsUpTo(RegistryDescriptors, MaxFiles) : BatchStart(fl)
    \/ BatchStep
    \/ BatchReturn
    \/ DeleteFile(FullPath(PyPath))

SpecIdempotent == InitRegistry /\ [][NextIdempotent]_vars

\* the call (file_path, language, env) has the input of the kept call: the
\* same file, the same resolved language, the same content and the same
\* behaviour of the parser on it
SameInput(file_path, language, env) ==
    /\ file_path = out.file_path
    /\ ResolveLanguage(file_path, language) = ResolveLanguage(out.file_path, out.language)
    /\ env = out.env

ALLOWED_EXTENSIONS ==
    {<<".", "p", "y">>, <<".", "j", "s">>, <<".", "t", "s">>, <<".", "j", "a", "v", "a">>,
     <<".", "c", "p", "p">>, <<".", "c">>, <<".", "g", "o">>, <<".", "r", "s">>,
     <<".", "r", "b">>, <<".", "p", "h", "p">>}

language_map ==
    (<<".", "p", "y">> :> "Python")
    @@ (<<".", "j", "s">> :> "JavaScript")
    @@ (<<".", "t", "s">> :> "TypeScript")
    @@ (<<".", "j", "a", "v", "a">> :> "Java")
    @@ (<<".", "c", "p", "p">> :> "C++")
    @@ (<<".", "c">> :> "C")
    @@ (<<".", "g", "o">> :> "Go")
    @@ (<<".", "r", "s">> :> "Rust")
    @@ (<<".", "r", "b">> :> "Ruby")
    @@ (<<".", "p", "h", "p">> :> "PHP")

_is_code_file(filename) == Lower(SplitExt(filename)) \in ALLOWED_EXTENSIONS

\* a lister that names the languages as the registry does
_get_language_from_extension_as_registry(ext) ==
    IF Lower(ext) \in DOMAIN extension_map THEN extension_map[Lower(ext)] ELSE None

\* language_map.get(ext.lower())
_get_language_from_extension(ext) ==
    IF Lower(ext) \in DOMAIN language_map THEN language_map[Lower(ext)] ELSE None

\* the last component of a relative path
FileName(p) == SubSeq(p, RFind(p, "/") + 2, Len(p))

\* some directory on the way to the file starts with a dot: os.walk never
\* enters it, because get_file_list removes it from dirs
InHiddenDirectory(p) ==
    \E i \in 1..Len(p) :
        /\ p[i] = "."
        /\ i = 1 \/ p[i - 1] = "/"
        /\ \E j \in (i + 1)..Len(p) : p[j] = "/"

RECURSIVE get_file_list(_)
\* walk: the relative paths of the files below the repository, in the order
\* of os.walk
get_file_list(walk) ==
    IF walk = <<>> THEN <<>>
    ELSE LET relative_path == Head(walk)
             filename == FileName(relative_path)
         IN  (IF ~InHiddenDirectory(relative_path) /\ _is_code_file(filename)
              THEN <<Descriptor(relative_path,
                                _get_language_from_extension(SplitExt(filename)))>>
              ELSE <<>>)
             \o get_file_list(Tail(walk))

(***************************************************************************)
(* Specification SpecPipeline: _parse_repository_files lists a repository  *)
(* and hands the list to batch_parse_files.                                *)
(***************************************************************************)
RbPath == <<"m", ".", "r", "b">>

HiddenPath == <<".", "g", "/", "m", ".", "p", "y">>

\* the files a repository may hold
RepositoryPaths == {PyPath, TsPath, CPath, TxtPath, RbPath, HiddenPath}

\* the order of os.walk over a repository: distinct files
Walks ==
    {w \in SeqsUpTo(RepositoryPaths, MaxFiles) :
        \A i, j \in 1..Len(w) : i # j => w[i] # w[j]}

InitPipeline ==
    /\ \E g \in BatchGrammars : Constructed(g)
    /\ fs = [f \in {FullPath(p) : p \in RepositoryPaths}
               |-> File(InitialBytes(SubSeq(f, Len(Root) + 1, Len(f))))]
    /\ call = NoCall
    /\ NoPipeline
    /\ Idle

\* _parse_repository_files: file_list = get_file_list(repo_path), and for a
\* list that is not empty the call of batch_parse_files(file_list)
ListAndStartBatch(walk) ==
    /\ get_file_list(walk) # <<>>
    /\ BatchStart(get_file_list(walk))

NextPipeline ==
    \/ \E w \in Walks : ListAndStartBatch(w)
    \/ BatchStep
    \/ BatchReturn
    \/ \E p \in {PyPath, RbPath} : DeleteFile(FullPath(p))

SpecPipeline == InitPipeline /\ [][NextPipeline]_vars

\* C22: in the pipeline every descriptor carries a non-empty language name
\* of the lister's table, which is no key of the parser registry; the batch
\* never reaches a parser and every entry is the fallback result of its file.
C22_PipelineAlwaysFallsBack ==
    idx > 0 =>
        /\ \A i \in 1..Len(file_list) :
              /\ ~Falsy(file_list[i].language)
              /\ \E e \in DOMAIN language_map : language_map[e] = file_list[i].language
              /\ file_list[i].language \notin DOMAIN parsers \cup DOMAIN language_configs
        /\ \A i \in Processed :
              /\ ~seen[i].parser_raises /\ ~seen[i].too_deep
              /\ IsFallbackShape(results[file_list[i].path])
              /\ results[file_list[i].path]
                    = [file_info |-> file_list[i]]
                      @@ _fallback_parse(file_list[i].full_path, seen[i].file).value

\* a readable Python file, listed as 'Python' while the python parser is
\* registered, got the fallback result: no function, the detected language
C22_Witness ==
    /\ AtReturn
    /\ "python" \in DOMAIN parsers
    /\ \E i \in 1..Len(file_list) :
          /\ file_list[i].path = PyPath
          /\ file_list[i].language = "Python"
          /\ seen[i].file.exists
          /\ results[PyPath].functions = <<>>
          /\ results[PyPath].language = "python"
          /\ results[PyPath].errors = <<DegradedMessage>>
    /\ \E i \in 1..Len(file_list) : file_list[i].language = "Ruby"

(***************************************************************************)
(* The language of a fallback result (specification SpecParse).            *)
(***************************************************************************)
\* C23: the language field of a fallback result never reflects the declared
\* language: it is what _detect_language gives for the file path, 'unknown'
\* when that is None, and 'unknown' when the file cannot be read, whatever
\* language the caller passed.
C23_FallbackLanguageIsDetected ==
    (call.made /\ ~CallSucceeds) =>
        call.outcome.value.language
            = IF ~call.env.file.exists THEN "unknown"
              ELSE IF _detect_language(call.file_path) = None THEN "unknown"
              ELSE _detect_language(call.file_path)

\* a readable Python file declared as 'go', whose grammar is not loaded, got
\* a fallback result that says python
C23_Witness ==
    /\ call.made
    /\ call.language = "go"
    /\ "go" \notin DOMAIN parsers
    /\ call.file_path = FullPath(PyPath)
    /\ call.env.file.exists
    /\ IsFallbackShape(call.outcome.value)
    /\ call.outcome.value.language = "python"

(***************************************************************************)
(* process_repository (code_parser.py).  A request clones or extracts the  *)
(* repository into a temporary directory, saves its record, parses and     *)
(* saves its files, commits the record as completed and removes the        *)
(* directory.  The database is what was committed: repositories holds the  *)
(* status of each row (row i has id i), code_files the rows of the files.  *)
(* Each commit, the clone, the listing and the removal can fail.           *)
(***************************************************************************)
\* the request that is running or was the last to run
Current == Len(temp_dirs)

\* process_repository(repo_url=..., zip_file_path=...): source is "git",
\* "zip" or None (neither argument given: ValueError)
ProcessRepository(source) ==
    /\ pc \in {"none", "returned", "raised"}
    /\ Len(temp_dirs) < MaxRequests
    /\ temp_dirs' = Append(temp_dirs, "none")
    /\ pc' = IF source = None THEN "raised" ELSE "start"
    /\ repo_record' = NoRecord
    /\ frame' = NoFrame
    /\ file_list' = <<>>
    /\ idx' = 0
    /\ results' = EmptyDict
    /\ seen' = <<>>
    /\ UNCHANGED <<registry, fs, call, extractVars, repositories, code_files>>

\* clone_repository / extract_zip_file: it raises before tempfile.mkdtemp
\* (invalid URL), after it (clone failed, bad ZIP), or returns the metadata
CloneOrExtract ==
    /\ pc = "start"
    /\ \E outcome \in {"invalid", "failed", "ok"} :
          /\ temp_dirs' = [temp_dirs EXCEPT ![Current] =
                                IF outcome = "invalid" THEN @ ELSE "exists"]
          /\ pc' = IF outcome = "ok" THEN "cloned" ELSE "raised"
    /\ UNCHANGED <<registry, fs, batchVars, call, extractVars, repo_record, repositories,
                   code_files, frame>>

\* _save_repository_metadata: Repository(status="processing"), add, commit,
\* refresh; a failed commit is rolled back, a failed refresh leaves the row
SaveRepositoryMetadata ==
    /\ pc = "cloned"
    /\ \E outcome \in {"commit_fails", "refresh_fails", "ok"} :
          /\ repositories' = IF outcome = "commit_fails" THEN repositories
                             ELSE Append(repositories, "processing")
          /\ repo_record' = IF outcome = "ok"
                            THEN [id |-> Len(repositories) + 1, status |-> "processing"]
                            ELSE NoRecord
          /\ pc' = IF outcome = "ok" THEN "saved" ELSE "raised"
    /\ UNCHANGED <<registry, fs, batchVars, call, extractVars, code_files, temp_dirs, frame>>

\* the locals of _parse_repository_files: the keys of parsing_results in
\* the order of the dict, the position of the for loop, the counters, and
\* the returned counts once it has returned
Frame(keys, k, saved_files, parsing_errors, returned) ==
    [running |-> TRUE, keys |-> keys, k |-> k, saved_files |-> saved_files,
     parsing_errors |-> parsing_errors, returned |-> returned]

\* the dict _parse_repository_files returns, without the mapping itself
Counts(total_files, parsed_files, errors) ==
    [total_files |-> total_files, parsed_files |-> parsed_files, errors |-> errors]

NoCodeFiles == Message("No code files found in repository", "")

\* f"Failed to save {file_path}: {str(e)}"
SaveFailedMessage(file_path, e) ==
    [text |-> "Failed to save ", file_path |-> file_path, detail |-> e]

RECURSIVE KeysInOrder(_)
\* the keys of the results dict of batch_parse_files, in insertion order: a
\* path keeps the position of its first descriptor
KeysInOrder(fl) ==
    IF fl = <<>> THEN <<>>
    ELSE LET rest == KeysInOrder(SubSeq(fl, 1, Len(fl) - 1))
             path == fl[Len(fl)].path
         IN  IF \E i \in 1..Len(rest) : rest[i] = path THEN rest ELSE Append(rest, path)

\* _parse_repository_files: get_file_list raises (a file vanished between
\* os.walk and os.path.getsize)
ListFilesRaises ==
    /\ pc = "saved"
    /\ pc' = "raised"
    /\ UNCHANGED <<registry, fs, batchVars, call, extractVars, repo_record, repositories,
                   code_files, temp_dirs, frame>>

\* _parse_repository_files with an empty file list: it returns at once
ListFilesEmpty(fl) ==
    /\ pc = "saved"
    /\ fl = <<>>
    /\ frame' = Frame(<<>>, 1, 0, <<>>, Some(Counts(0, 0, <<NoCodeFiles>>)))
    /\ pc' = "parsed"
    /\ UNCHANGED <<registry, fs, batchVars, call, extractVars, repo_record, repositories,
                   code_files, temp_dirs>>

\* _parse_repository_files with the file list fl: batch_parse_files(fl) starts
ListFiles(fl) ==
    /\ pc = "saved"
    /\ fl # <<>>
    /\ file_list' = fl
    /\ idx' = 1
    /\ results' = EmptyDict
    /\ seen' = <<>>
    /\ pc' = "batch"
    /\ UNCHANGED <<registry, fs, call, extractVars, repo_record, repositories, code_files,
                   temp_dirs, frame>>

\* batch_parse_files has returned: parsing_results is the mapping, the save
\* loop starts
SaveLoopStart ==
    /\ pc = "batch"
    /\ idx = Len(file_list) + 1
    /\ frame' = Frame(KeysInOrder(file_list), 1, 0, <<>>, NoneOpt)
    /\ pc' = "saving"
    /\ UNCHANGED <<registry, fs, batchVars, call, extractVars, repo_record, repositories,
                   code_files, temp_dirs>>

\* dict.get(key, default)
Get(d, key, default) == IF key \in DOMAIN d THEN d[key] ELSE default

\* what saving one file meets: the commit of the CodeFile row fails, the
\* save of its first function fails, the save of its first class fails
SaveEnvs(parsed_data) ==
    {[commit_fails |-> c, function_fails |-> f, class_fails |-> k] :
        c \in BOOLEAN,
        f \in IF Get(parsed_data, "functions", <<>>) # <<>> THEN BOOLEAN ELSE {FALSE},
        k \in IF Get(parsed_data, "classes", <<>>) # <<>> THEN BOOLEAN ELSE {FALSE}}

\* _save_parsed_function / _save_parsed_class on each record of a list: the
\* number of rows committed; a failing save is rolled back and swallowed
SaveChildren(records, first_fails) ==
    IF first_fails /\ records # <<>> THEN Len(records) - 1 ELSE Len(records)

\* _save_parsed_file: the committed CodeFile row with the numbers of its
\* function and class rows, or the exception it re-raises after rollback
_save_parsed_file(repo_id, file_path, parsed_data, state, env) ==
    LET read == ReadFile(state)
    IN  IF read.raised THEN read
        ELSE IF env.commit_fails THEN Raise("SQLAlchemyError")
        ELSE Ret([repo_id |-> repo_id, file_path |-> file_path,
                  language |-> parsed_data.language,
                  lines_of_code |-> Get(parsed_data, "lines_of_code", 0),
                  functions |-> SaveChildren(Get(parsed_data, "functions", <<>>),
                                             env.function_fails),
                  classes |-> SaveChildren(Get(parsed_data, "classes", <<>>),
                                           env.class_fails)])

\* an iteration of the save loop that ends the loop when its file fails
SaveParsedFileStoppingAtFailure ==
    /\ pc = "saving"
    /\ frame.k <= Len(frame.keys)
    /\ LET file_path == frame.keys[frame.k]
           parsed_data == results[file_path]
       IN  \E env \in SaveEnvs(parsed_data) :
              LET saved == _save_parsed_file(repo_record.id, file_path, parsed_data,
                                             fs[parsed_data.file_info.full_path], env)
              IN  IF saved.raised
                  THEN /\ frame' = [frame EXCEPT
                                      !.k = Len(frame.keys) + 1,
                                      !.parsing_errors =
                                          Append(@, SaveFailedMessage(file_path, saved.value))]
                       /\ code_files' = code_files
                  ELSE /\ frame' = [frame EXCEPT !.k = @ + 1, !.saved_files = @ + 1]
                       /\ code_files' = Append(code_files, saved.value)
    /\ UNCHANGED <<registry, fs, batchVars, call, extractVars, pc, repo_record, repositories,
                   temp_dirs>>

\* one iteration of `for file_path, parsed_data in parsing_results.items()`
SaveParsedFile ==
    /\ pc = "saving"
    /\ frame.k <= Len(frame.keys)
    /\ LET file_path == frame.keys[frame.k]
           parsed_data == results[file_path]
       IN  \E env \in SaveEnvs(parsed_data) :
              LET saved == _save_parsed_file(repo_record.id, file_path, parsed_data,
                                             fs[parsed_data.file_info.full_path], env)
              IN  IF saved.raised
                  THEN /\ frame' = [frame EXCEPT
                                      !.k = @ + 1,
                                      !.parsing_errors =
                                          Append(@, SaveFailedMessage(file_path, saved.value))]
                       /\ code_files' = code_files
                  ELSE /\ frame' = [frame EXCEPT !.k = @ + 1, !.saved_files = @ + 1]
                       /\ code_files' = Append(code_files, saved.value)
    /\ UNCHANGED <<registry, fs, batchVars, call, extractVars, pc, repo_record, repositories,
                   temp_dirs>>

\* the return of _parse_repository_files after the save loop
ParseRepositoryFilesReturn ==
    /\ pc = "saving"
    /\ frame.k = Len(frame.keys) + 1
    /\ frame' = [frame EXCEPT !.returned =
                     Some(Counts(Len(file_list), frame.saved_files, frame.parsing_errors))]
    /\ pc' = "parsed"
    /\ UNCHANGED <<registry, fs, batchVars, call, extractVars, repo_record, repositories,
                   code_files, temp_dirs>>

\* a request that writes 'failed' to its row when the commit of 'completed'
\* fails
CommitCompletedMarkingFailed ==
    /\ pc = "parsed"
    /\ \E commit_fails \in BOOLEAN :
          /\ repo_record' = [repo_record EXCEPT !.status =
                                 IF commit_fails THEN "failed" ELSE "completed"]
          /\ repositories' = [repositories EXCEPT ![repo_record.id] =
                                  IF commit_fails THEN "failed" ELSE "completed"]
          /\ pc' = IF commit_fails THEN "raised" ELSE "committed"
    /\ UNCHANGED <<registry, fs, batchVars, call, extractVars, code_files, temp_dirs, frame>>

\* a request that removes its temporary directory also when the commit of
\* 'completed' fails
CommitCompletedCleaningUp ==
    /\ pc = "parsed"
    /\ \E commit_fails \in BOOLEAN :
          /\ repo_record' = [repo_record EXCEPT !.status = "completed"]
          /\ repositories' = IF commit_fails THEN repositories
                             ELSE [repositories EXCEPT ![repo_record.id] = "completed"]
          /\ temp_dirs' = IF commit_fails THEN [temp_dirs EXCEPT ![Current] = "removed"]
                          ELSE temp_dirs
          /\ pc' = IF commit_fails THEN "raised" ELSE "committed"
    /\ UNCHANGED <<registry, fs, batchVars, call, extractVars, code_files, frame>>

\* repo_record.status = "completed"; self.db_session.commit()
CommitCompleted ==
    /\ pc = "parsed"
    /\ \E commit_fails \in BOOLEAN :
          /\ repo_record' = [repo_record EXCEPT !.status = "completed"]
          /\ repositories' = IF commit_fails THEN repositories
                             ELSE [repositories EXCEPT ![repo_record.id] = "completed"]
          /\ pc' = IF commit_fails THEN "raised" ELSE "committed"
    /\ UNCHANGED <<registry, fs, batchVars, call, extractVars, code_files, temp_dirs, frame>>

\* cleanup_temp_directory(local_path) and the return of the request; a
\* failing shutil.rmtree is logged and leaves the directory
CleanupTempDirectory ==
    /\ pc = "committed"
    /\ \E removed \in BOOLEAN :
          temp_dirs' = [temp_dirs EXCEPT ![Current] = IF removed THEN "removed" ELSE @]
    /\ pc' = "returned"
    /\ UNCHANGED <<registry, fs, batchVars, call, extractVars, repo_record, repositories,
                   code_files, frame>>

(***************************************************************************)
(* Specification SpecProcess: MaxRequests requests, one after the other,   *)
(* on repositories of up to MaxFiles files, with a file deleted meanwhile. *)
(***************************************************************************)
\* the repositories of the requests: a Python file, a Ruby file and a text
\* file, in any order of os.walk
ProcessWalks ==
    {w \in Walks : \A i \in 1..Len(w) : w[i] \in {PyPath, RbPath, TxtPath}}

NextProcess ==
    \/ \E source \in {"git", "zip", None} : ProcessRepository(source)
    \/ CloneOrExtract
    \/ SaveRepositoryMetadata
    \/ ListFilesRaises
    \/ \E w \in ProcessWalks : ListFilesEmpty(get_file_list(w))
    \/ \E w \in ProcessWalks : ListFiles(get_file_list(w))
    \/ BatchStep
    \/ SaveLoopStart
    \/ SaveParsedFile
    \/ ParseRepositoryFilesReturn
    \/ CommitCompleted
    \/ CleanupTempDirectory
    \/ DeleteFile(FullPath(PyPath))

SpecProcess == InitPipeline /\ [][NextProcess]_vars

C25_CleanupOnlyOnSuccess ==
    [][/\ (pc' = "returned" /\ pc # "returned") =>
             /\ pc = "committed"
             /\ repositories[repo_record.id] = "completed"
       /\ \A i \in 1..Len(temp_dirs) :
             (temp_dirs[i] = "exists" /\ temp_dirs'[i] # "exists") =>
                 /\ i = Current
                 /\ pc = "committed"
                 /\ repositories[repo_record.id] = "completed"
       /\ (pc' = "raised" /\ pc \in {"cloned", "saved", "batch", "saving", "parsed"})
             => temp_dirs'[Current] = "exists"]_vars

\* the commit of 'completed' failed in the second request: its directory is
\* in place, while the first request had succeeded and removed its own
C25_Witness ==
    /\ pc = "raised"
    /\ repo_record.id # 0
    /\ repo_record.status = "completed"
    /\ repositories[repo_record.id] = "processing"
    /\ temp_dirs = <<"removed", "exists">>

(***************************************************************************)
(* Specification SpecSave: _parse_repository_files of a request whose      *)
(* record is saved, on the file list of any lister (with and without a     *)
(* declared language), with files deleted while it runs.                   *)
(***************************************************************************)
SaveDescriptors ==
    {Descriptor(PyPath, None), Descriptor(ClassPath, None),
     Descriptor(ClassPath, "Python"), Descriptor(TxtPath, None)}

InitSave ==
    /\ \E g \in BatchGrammars : Constructed(g)
    /\ fs = [f \in {FullPath(p) : p \in {PyPath, ClassPath, TxtPath}}
               |-> File(InitialBytes(SubSeq(f, Len(Root) + 1, Len(f))))]
    /\ call = NoCall
    /\ Idle
    /\ pc = "saved"
    /\ repo_record = [id |-> 1, status |-> "processing"]
    /\ repositories = <<"processing">>
    /\ code_files = <<>>
    /\ temp_dirs = <<"exists">>
    /\ frame = NoFrame

NextSave ==
    \/ \E fl \in SeqsUpTo(SaveDescriptors, MaxFiles) : ListFilesEmpty(fl)
    \/ \E fl \in SeqsUpTo(SaveDescriptors, MaxFiles) : ListFiles(fl)
    \/ BatchStep
    \/ SaveLoopStart
    \/ SaveParsedFile
    \/ ParseRepositoryFilesReturn
    \/ DeleteFile(FullPath(ClassPath))

SpecSave == InitSave /\ [][NextSave]_vars

\* the entries the save loop has passed
Passed == 1..(frame.k - 1)

\* the committed row of the file, the error recorded for the file
RowsOf(file_path) == {i \in 1..Len(code_files) : code_files[i].file_path = file_path}

ErrorsOf(file_path) ==
    {i \in 1..Len(frame.parsing_errors) : frame.parsing_errors[i].file_path = file_path}

\* C26: for a non-empty file list, parsed_files + len(errors) is the number
\* of entries of the batch mapping and parsed_files <= total_files.  Every
\* iteration of the save loop adds one to exactly one of the two: a file
\* whose save fails gets one error and the loop goes on to the entries
\* after it; a failing save of a function or of a class is swallowed: the
\* file has its row and counts as parsed.
C26_SaveCountsAddUp ==
    (frame.running /\ file_list # <<>>) =>
        /\ frame.saved_files + Len(frame.parsing_errors) = frame.k - 1
        /\ frame.saved_files = Len(code_files)
        /\ \A j \in Passed :
              /\ Cardinality(RowsOf(frame.keys[j])) + Cardinality(ErrorsOf(frame.keys[j])) = 1
              /\ \A i \in ErrorsOf(frame.keys[j]) :
                    frame.parsing_errors[i].detail \in {"FileNotFoundError", "SQLAlchemyError"}
              /\ \A i \in RowsOf(frame.keys[j]) :
                    /\ code_files[i].functions <= Len(Get(results[frame.keys[j]], "functions", <<>>))
                    /\ code_files[i].classes <= Len(Get(results[frame.keys[j]], "classes", <<>>))
        /\ frame.returned # NoneOpt =>
              LET parsing_results == frame.returned[1]
              IN  /\ frame.k = Len(frame.keys) + 1
                  /\ Len(frame.keys) = Cardinality(DOMAIN results)
                  /\ parsing_results.total_files = Len(file_list)
                  /\ parsing_results.parsed_files + Len(parsing_results.errors)
                        = Cardinality(DOMAIN results)
                  /\ parsing_results.parsed_files <= parsing_results.total_files

\* the save of the first file failed and the second file was saved after
\* it; the save of its class failed and it still counts as parsed
C26_Witness ==
    /\ pc = "parsed"
    /\ frame.returned # NoneOpt
    /\ Len(frame.keys) = 2
    /\ frame.returned[1].parsed_files = 1
    /\ Len(frame.returned[1].errors) = 1
    /\ frame.returned[1].errors[1].file_path = frame.keys[1]
    /\ code_files[1].file_path = frame.keys[2]
    /\ code_files[1].classes < Len(results[frame.keys[2]].classes)
    /\ code_files[1].functions = Len(results[frame.keys[2]].functions)

(***************************************************************************)
(* Methods among the functions (specification SpecWalk).                   *)
(***************************************************************************)
\* the method records of all classes of a result
MethodRecords(r) ==
    UNION {{r.classes[c].methods[m] : m \in 1..Len(r.classes[c].methods)} :
             c \in 1..Len(r.classes)}

\* C27: in a Python result every method record of a class is also, as an
\* equal record, in the top-level functions: the walker descends into the
\* body of a class after it extracted the class.  So, when no rule raises,
\* the functions are as many as the function_definition nodes of the whole
\* tree that have a name, those in class bodies included.
C27_MethodsAreAlsoFunctions ==
    (out.made /\ out.language = "python") =>
        /\ \A method \in MethodRecords(out.result) :
              \E i \in 1..Len(out.result.functions) : out.result.functions[i] = method
        /\ content = TreeSource =>
              LET Named(n) == HasIdentifier(tree, n)
                  IsMethod(n) ==
                      \E c \in 1..Len(tree) :
                          /\ tree[c].type = "class_definition"
                          /\ HasIdentifier(tree, c)
                          /\ \E k \in 1..Len(DirectMethodNodes(tree, c)) :
                                DirectMethodNodes(tree, c)[k] = n
                  named == SelectSeq(NodesOfTypes(tree, {"function_definition"}), Named)
              IN  /\ Len(out.result.functions) = Len(named)
                  /\ Cardinality(MethodRecords(out.result)) <= Len(SelectSeq(named, IsMethod))
                  /\ Len(SelectSeq(named, IsMethod)) > 0 => MethodRecords(out.result) # {}

\* a class with one named method: the record of the method is in the class
\* and, equal, the only record of the functions
C27_Witness ==
    /\ out.made
    /\ out.language = "python"
    /\ content = TreeSource
    /\ Len(out.result.classes) = 1
    /\ Len(out.result.classes[1].methods) = 1
    /\ out.result.functions = <<out.result.classes[1].methods[1]>>

(***************************************************************************)
(* The keys and the file_info of the batch mapping (specification Spec).   *)
(***************************************************************************)
\* the last processed descriptor with the given relative path
LastWithPath(path) ==
    CHOOSE i \in Processed :
        /\ file_list[i].path = path
        /\ \A j \in Processed : file_list[j].path = path => j <= i

\* C28: batch_parse_files keys its result by the relative path of the
\* descriptor and every entry, structured, fallback or failed, carries its
\* descriptor as file_info; of several descriptors with one relative path
\* the last one overwrites the others, so the entries are as many as the
\* distinct relative paths and each file_info is the last descriptor of its
\* path.
C28_KeyedByPathLastDescriptorWins ==
    idx > 0 =>
        /\ DOMAIN results = {file_list[i].path : i \in Processed}
        /\ \A path \in DOMAIN results :
              /\ "file_info" \in DOMAIN results[path]
              /\ results[path].file_info = file_list[LastWithPath(path)]
              /\ results[path]
                    = BatchEntry(parsers, file_list[LastWithPath(path)], seen[LastWithPath(path)])
        /\ AtReturn => Cardinality(DOMAIN results) = Cardinality(PathsOf(file_list))

\* two descriptors of one path with different languages: the single entry
\* is the failed one of the second, whose file was gone, not the structured
\* one of the first
C28_Witness ==
    /\ AtReturn
    /\ Len(file_list) = 2
    /\ file_list[1].path = file_list[2].path
    /\ file_list[1].language # file_list[2].language
    /\ seen[1].file.exists
    /\ ~seen[2].file.exists
    /\ Cardinality(DOMAIN results) = 1
    /\ results[file_list[2].path].file_info = file_list[2]
    /\ Failed(results[file_list[2].path])

====
